---------------------------- MODULE Spec2Model ----------------------------
(***************************************************************************)
(* A model of signal-http: the hand-rolled HTTP request parser and         *)
(* response serializer (src/src/http.rs), the connection registry          *)
(* HttpServer with its Reading/Writing state machine (src/src/http.rs),    *)
(* and the accept/dispatch loop with its token allocator                   *)
(* (src/src/bin/chat_server.rs).                                           *)
(*                                                                         *)
(* Bytes and text are sequences of one-character strings.  The byte 0xFF   *)
(* (never valid in UTF-8) is written "\\xFF" and the zero byte that        *)
(* Vec::resize pads with is written "\\0".                                  *)
(***************************************************************************)
EXTENDS Integers, Sequences, FiniteSets, TLC

VARIABLES
    \* ---- HttpServer and the dispatch loop of main ----
    connections,   \* HttpServer.connections: token -> Connection
    used_tokens,   \* main: used_tokens
    last_token,    \* main: last_token
    pc,            \* main: "running", "exited" (Err returned) or "hung"
    sock,          \* per token: what the peer's socket has seen (observation)
    ev,            \* what the last dispatched event did (observation)
    \* ---- HttpRequest::parse driven directly ----
    p_text,        \* the whole request text the peer is sending
    p_len,         \* how many of its bytes have been received
    p_done,        \* whether the input was closed
    p_res,         \* the result of the last parse call
    \* ---- calc_next_token driven directly ----
    a_used, a_last, a_res,
    \* ---- HttpResponse::new / unparse driven directly ----
    u_resp, u_out,
    \* ---- ChatServer driven directly ----
    chats,             \* ChatServer.chats: chat id -> StoredChat
    chats_by_user_id,  \* ChatServer.chats_by_user_id: user -> ChatRefs
    contact_lists,     \* ChatServer.contact_lists: user -> contacts
    c_req,             \* the last request issued (observation)
    c_res              \* the response to it (observation)

srvVars == <<connections, used_tokens, last_token, pc, sock, ev>>
parseVars == <<p_text, p_len, p_done, p_res>>
allocVars == <<a_used, a_last, a_res>>
unparseVars == <<u_resp, u_out>>
chatVars == <<chats, chats_by_user_id, contact_lists, c_req, c_res>>
vars == <<srvVars, parseVars, allocVars, unparseVars, chatVars>>

-----------------------------------------------------------------------------
(* Text helpers: what the std library calls used by the code compute.      *)

Min(a, b) == IF a <= b THEN a ELSE b

\* data[from..] of Rust, with `from` a 0-based offset.
DropFirst(s, n) == SubSeq(s, n + 1, Len(s))

TakeFirst(s, n) == SubSeq(s, 1, n)

\* str::starts_with
StartsWith(s, pre) == Len(pre) <= Len(s) /\ TakeFirst(s, Len(pre)) = pre

\* The 0-based offset of the first occurrence of pat in s at or after
\* offset i, or -1.
RECURSIVE FindFrom(_, _, _)
FindFrom(s, pat, i) ==
    IF i + Len(pat) > Len(s) THEN -1
    ELSE IF SubSeq(s, i + 1, i + Len(pat)) = pat THEN i
    ELSE FindFrom(s, pat, i + 1)

\* str::split(pat): the pieces between non-overlapping occurrences of pat,
\* left to right; a trailing occurrence yields a final empty piece.
RECURSIVE SplitOn(_, _)
SplitOn(s, pat) ==
    LET at == FindFrom(s, pat, 0) IN
    IF at = -1 THEN <<s>>
    ELSE <<TakeFirst(s, at)>> \o SplitOn(DropFirst(s, at + Len(pat)), pat)

\* str::split(&[' ', '\t'][..]): split at every single space or tab.
RECURSIVE SplitAny(_, _)
SplitAny(s, delims) ==
    IF \E i \in 1..Len(s) : s[i] \in delims
    THEN LET at == CHOOSE i \in 1..Len(s) :
                       s[i] \in delims /\ \A j \in 1..(i - 1) : s[j] \notin delims
         IN <<TakeFirst(s, at - 1)>> \o SplitAny(DropFirst(s, at), delims)
    ELSE <<s>>

\* char::is_whitespace restricted to the bytes of the model.
WhiteSpace == {" ", "\t", "\r", "\n"}

\* str::trim_start
RECURSIVE TrimStart(_)
TrimStart(s) ==
    IF s # <<>> /\ s[1] \in WhiteSpace THEN TrimStart(Tail(s)) ELSE s

UpperChars == <<"A","B","C","D","E","F","G","H","I","J","K","L","M",
                "N","O","P","Q","R","S","T","U","V","W","X","Y","Z">>
LowerChars == <<"a","b","c","d","e","f","g","h","i","j","k","l","m",
                "n","o","p","q","r","s","t","u","v","w","x","y","z">>

LowerChar(c) ==
    IF \E i \in 1..26 : UpperChars[i] = c
    THEN LowerChars[CHOOSE i \in 1..26 : UpperChars[i] = c]
    ELSE c

\* str::to_lowercase
ToLowercase(s) == [i \in 1..Len(s) |-> LowerChar(s[i])]

Digits == <<"0","1","2","3","4","5","6","7","8","9">>

IsDigit(c) == \E i \in 1..10 : Digits[i] = c

DigitVal(c) == (CHOOSE i \in 1..10 : Digits[i] = c) - 1

RECURSIVE DigitsVal(_, _)
DigitsVal(s, acc) ==
    IF s = <<>> THEN acc ELSE DigitsVal(Tail(s), acc * 10 + DigitVal(s[1]))

\* str::parse::<usize>(): an optional '+' and then one or more decimal
\* digits.  <<>> is Err, <<n>> is Ok(n).  (The texts of the model stay far
\* below usize::MAX, so the overflow error of parse is not reachable.)
ParseUsize(s) ==
    LET d == IF s # <<>> /\ s[1] = "+" THEN Tail(s) ELSE s IN
    IF d # <<>> /\ \A i \in 1..Len(d) : IsDigit(d[i])
    THEN <<DigitsVal(d, 0)>>
    ELSE <<>>

\* usize::to_string / u16::to_string
RECURSIVE to_string(_)
to_string(n) ==
    IF n < 10 THEN <<Digits[n + 1]>>
    ELSE to_string(n \div 10) \o <<Digits[(n % 10) + 1]>>

-----------------------------------------------------------------------------
(* HttpRequest::parse                                                      *)

CRLF == <<"\r", "\n">>
GET == <<"G", "E", "T">>
POST == <<"P", "O", "S", "T">>
ContentLengthLower ==
    <<"c","o","n","t","e","n","t","-","l","e","n","g","t","h">>

\* Option values: <<>> is None and <<v>> is Some(v).
None == <<>>
Some(v) == <<v>>

\* The request line arm taking any first section for a method.
RequestLine_any_method(line) ==
    LET Sections(sections) ==
            [method  |-> Some(IF sections[1] = GET THEN "GET" ELSE "POST"),
             path    |-> IF Len(sections) >= 2 THEN Some(sections[2]) ELSE None,
             version |-> IF Len(sections) >= 3 THEN Some(sections[3]) ELSE None]
    IN Sections(SplitAny(line, {" ", "\t"}))

\* The request line arm of the loop: the sections of the line, enumerated;
\* sections past the third are ignored.
RequestLine(line) ==
    LET Sections(sections) ==
            [method  |-> IF sections[1] = GET THEN Some("GET")
                         ELSE IF sections[1] = POST THEN Some("POST")
                         ELSE None,
             path    |-> IF Len(sections) >= 2 THEN Some(sections[2]) ELSE None,
             version |-> IF Len(sections) >= 3 THEN Some(sections[3]) ELSE None]
    IN Sections(SplitAny(line, {" ", "\t"}))

\* HeaderLine comparing the name with "Content-Length" as written, without
\* to_lowercase.
HeaderLine_exact(st, line) ==
    LET colon == FindFrom(line, <<":">>, 0) IN
    IF colon = -1 THEN st
    ELSE LET name == TakeFirst(line, colon)
             value == TrimStart(DropFirst(line, colon + 1))
             length == ParseUsize(value)
         IN [st EXCEPT
                !.headers = Append(@, <<name, value>>),
                !.body_len = IF name = <<"C","o","n","t","e","n","t","-",
                                         "L","e","n","g","t","h">>
                                /\ length # <<>>
                             THEN length ELSE @]

\* The header-line arm of the loop applied to a non-empty line: the scan
\* state st with the header pushed and the body length captured.
HeaderLine(st, line) ==
    LET colon == FindFrom(line, <<":">>, 0) IN
    IF colon = -1 THEN st
    ELSE LET name == TakeFirst(line, colon)
             value == TrimStart(DropFirst(line, colon + 1))
             length == ParseUsize(value)
         IN [st EXCEPT
                !.headers = Append(@, <<name, value>>),
                !.body_len = IF ToLowercase(name) = ContentLengthLower
                                /\ length # <<>>
                             THEN length ELSE @]

\* The `for line in data.split("\r\n")` loop from line number i on.
RECURSIVE ScanLines(_, _, _)
ScanLines(lines, i, st) ==
    IF i > Len(lines) THEN st
    ELSE
      LET line == lines[i]
          st1 == [st EXCEPT !.body_start = @ + Len(line) + 2]
          Resolved(rl) ==
              [st1 EXCEPT !.state = "ReadingHeaderLines",
                          !.method = rl.method,
                          !.path = rl.path,
                          !.version = rl.version]
      IN CASE st.state = "ReadingRequestLine" ->
                ScanLines(lines, i + 1, Resolved(RequestLine(line)))
           [] st.state = "ReadingHeaderLines" /\ line # <<>> ->
                ScanLines(lines, i + 1, HeaderLine(st1, line))
           [] st.state = "ReadingHeaderLines" /\ line = <<>> ->
                [st1 EXCEPT !.state = "DoneReadingHeaderLines"]
           [] OTHER -> st1

ScanInit ==
    [state |-> "ReadingRequestLine", method |-> None, path |-> None,
     version |-> None, headers |-> <<>>, body_len |-> None, body_start |-> 0]

Incomplete == [kind |-> "Incomplete"]
Malformed == [kind |-> "Malformed"]
Complete(req) == [kind |-> "Complete", req |-> req]

\* parse without the GET arm of its final match: a GET goes through the arm
\* of the other methods.
parse_no_get_arm(data, done) ==
    LET Match(st) ==
          LET body == IF st.body_start > 0 /\ st.body_start < Len(data)
                      THEN DropFirst(data, st.body_start) ELSE <<>>
              resolved == st.method # None /\ st.path # None
                          /\ st.version # None
          IN IF st.state \in {"ReadingRequestLine", "ReadingHeaderLines"}
             THEN IF ~done THEN Incomplete ELSE Malformed
             ELSE IF ~resolved THEN Malformed
             ELSE IF done \/ (st.body_len # None /\ Len(body) = st.body_len[1])
             THEN Complete([body |-> Some(body), headers |-> st.headers,
                            method |-> st.method[1], path |-> st.path[1],
                            version |-> st.version[1]])
             ELSE Incomplete
    IN Match(ScanLines(SplitOn(data, CRLF), 1, ScanInit))

\* HttpRequest::parse(data, done): Ok(None) is Incomplete, Ok(Some(req)) is
\* Complete(req) and Err(_) is Malformed.
parse(data, done) ==
    LET Match(st) ==
          LET body == IF st.body_start > 0 /\ st.body_start < Len(data)
                      THEN DropFirst(data, st.body_start) ELSE <<>>
              resolved == st.method # None /\ st.path # None
                          /\ st.version # None
          IN IF st.state \in {"ReadingRequestLine", "ReadingHeaderLines"}
             THEN IF ~done THEN Incomplete ELSE Malformed
             ELSE IF ~resolved THEN Malformed
             ELSE IF st.method = Some("GET")
             THEN Complete([body |-> None, headers |-> st.headers,
                            method |-> "GET", path |-> st.path[1],
                            version |-> st.version[1]])
             ELSE IF done \/ (st.body_len # None /\ Len(body) = st.body_len[1])
             THEN Complete([body |-> Some(body), headers |-> st.headers,
                            method |-> st.method[1], path |-> st.path[1],
                            version |-> st.version[1]])
             ELSE Incomplete
    IN Match(ScanLines(SplitOn(data, CRLF), 1, ScanInit))

-----------------------------------------------------------------------------
(* HttpResponse::new and HttpResponse::unparse                             *)

Str(w) == [kind |-> "Str", text |-> w]
String(w) == [kind |-> "String", text |-> w]

StatusText(status) ==
    CASE status = 200 -> <<"O","K">>
      [] status = 400 -> <<"B","a","d"," ","R","e","q","u","e","s","t">>
      [] status = 404 -> <<"N","o","t"," ","F","o","u","n","d">>
      [] status = 501 ->
            <<"N","o","t"," ","I","m","p","l","e","m","e","n","t","e","d">>
      [] OTHER -> <<>>

HttpResponse_new(version, status, headers, body) ==
    [body |-> body, status |-> status, status_text |-> StatusText(status),
     headers |-> headers, version |-> version]

ContentLengthColon ==
    <<"C","o","n","t","e","n","t","-","L","e","n","g","t","h",":"," ">>
ConnectionClose ==
    <<"C","o","n","n","e","c","t","i","o","n",":"," ","C","l","o","s","e">>

\* The `for (name, value) in self.headers.iter()` loop of unparse.
RECURSIVE UnparseHeaders(_)
UnparseHeaders(headers) ==
    IF headers = <<>> THEN <<>>
    ELSE headers[1][1] \o <<":", " ">> \o headers[1][2] \o CRLF
         \o UnparseHeaders(Tail(headers))

unparse(resp) ==
    resp.version \o <<" ">> \o to_string(resp.status) \o <<" ">>
    \o resp.status_text \o CRLF
    \o UnparseHeaders(resp.headers)
    \o ContentLengthColon \o to_string(Len(resp.body.text)) \o CRLF
    \o ConnectionClose \o CRLF \o CRLF
    \o resp.body.text

-----------------------------------------------------------------------------
(* calc_next_token (src/src/bin/chat_server.rs)                            *)

\* Stands for usize::MAX: the identifier space scaled down.
USIZE_MAX == 6

\* Token(0) is the listening socket's.
SERVER == 0

\* The identifiers a connection may be given: all but the reserved 0 and
\* the reserved top margin.
AssignableTokens == 1..(USIZE_MAX - 2)

\* The loop of calc_next_token without its wrap at usize::MAX - 2.
RECURSIVE TokenLoop_no_wrap(_, _, _, _)
TokenLoop_no_wrap(used, start, last, n) ==
    LET next == (last + 1) % (USIZE_MAX + 1)
    IN IF next \notin used THEN [kind |-> "Some", token |-> next, probes |-> n + 1]
       ELSE IF next = start THEN [kind |-> "None", probes |-> n + 1]
       ELSE IF n > USIZE_MAX THEN [kind |-> "Diverges"]
       ELSE TokenLoop_no_wrap(used, start, next, n + 1)

\* The loop of calc_next_token after n completed iterations, `last` being
\* its variable.  The loop has no other state than `last`, which ranges
\* over 0..USIZE_MAX: when it has run more than USIZE_MAX + 1 iterations
\* without returning, a value of `last` has recurred and the loop never
\* returns ("Diverges").  last.0 + 1 is computed in usize.
RECURSIVE TokenLoop(_, _, _, _)
TokenLoop(used, start, last, n) ==
    LET wrapped == IF last = USIZE_MAX - 2 THEN 1 ELSE last
        next == (wrapped + 1) % (USIZE_MAX + 1)
    IN IF next \notin used THEN [kind |-> "Some", token |-> next, probes |-> n + 1]
       ELSE IF next = start THEN [kind |-> "None", probes |-> n + 1]
       ELSE IF n > USIZE_MAX THEN [kind |-> "Diverges"]
       ELSE TokenLoop(used, start, next, n + 1)

\* calc_next_token without its `!used_tokens.contains(&next)` test.
calc_next_token_unchecked(used, last) ==
    [kind |-> "Some",
     token |-> ((IF last = USIZE_MAX - 2 THEN 1 ELSE last) + 1)
                   % (USIZE_MAX + 1),
     probes |-> 1]

\* calc_next_token probing from 1 whatever the last identifier was.
calc_next_token_from_one(used, last) == TokenLoop(used, SERVER, SERVER, 0)

calc_next_token(used, last) == TokenLoop(used, last, last, 0)

-----------------------------------------------------------------------------
(* The request texts a peer sends in the model.                            *)

\* GET /x HTTP/1.1\r\nH: v\r\n\r\n
TextGet ==
    <<"G", "E", "T", " ", "/", "x", " ", "H", "T", "T", "P", "/", "1", ".",
      "1", "\r", "\n", "H", ":", " ", "v", "\r", "\n", "\r", "\n">>

\* POST /x HTTP/1.1\r\nContent-Length: 4\r\n\r\nabcd
TextPostLength ==
    <<"P", "O", "S", "T", " ", "/", "x", " ", "H", "T", "T", "P", "/", "1",
      ".", "1", "\r", "\n", "C", "o", "n", "t", "e", "n", "t", "-", "L",
      "e", "n", "g", "t", "h", ":", " ", "4", "\r", "\n", "\r", "\n", "a",
      "b", "c", "d">>

\* POST /x HTTP/1.1\r\n\r\ntest\r\n
TextPostNoLength ==
    <<"P", "O", "S", "T", " ", "/", "x", " ", "H", "T", "T", "P", "/", "1",
      ".", "1", "\r", "\n", "\r", "\n", "t", "e", "s", "t", "\r", "\n">>

\* GET /x\r\n\r\n
TextNoVersion ==
    <<"G", "E", "T", " ", "/", "x", "\r", "\n", "\r", "\n">>

\* PUT /x HTTP/1.1\r\n\r\n
TextPut ==
    <<"P", "U", "T", " ", "/", "x", " ", "H", "T", "T", "P", "/", "1", ".",
      "1", "\r", "\n", "\r", "\n">>

\* GET  /x\tHTTP/1.0\r\nNoColon\r\ncontent-length:+2\r\n\r\nANYTHING
TextGetTrailing ==
    <<"G", "E", "T", " ", " ", "/", "x", "\t", "H", "T", "T", "P", "/",
      "1", ".", "0", "\r", "\n", "N", "o", "C", "o", "l", "o", "n", "\r",
      "\n", "c", "o", "n", "t", "e", "n", "t", "-", "l", "e", "n", "g",
      "t", "h", ":", "+", "2", "\r", "\n", "\r", "\n", "A", "N", "Y", "T",
      "H", "I", "N", "G">>

\* POST /x HTTP/1.1\r\ncontent-length: 2\r\nContent-Length: x\r\n\r\nabc
TextPostLonger ==
    <<"P", "O", "S", "T", " ", "/", "x", " ", "H", "T", "T", "P", "/", "1",
      ".", "1", "\r", "\n", "c", "o", "n", "t", "e", "n", "t", "-", "l",
      "e", "n", "g", "t", "h", ":", " ", "2", "\r", "\n", "C", "o", "n",
      "t", "e", "n", "t", "-", "L", "e", "n", "g", "t", "h", ":", " ", "x",
      "\r", "\n", "\r", "\n", "a", "b", "c">>

Texts ==
    {TextGet,
     TextPostLonger,
     TextPostLength,
     TextPostNoLength,
     TextNoVersion,
     TextPut,
     TextGetTrailing}

\* Content-Type
ContentType ==
    <<"C", "o", "n", "t", "e", "n", "t", "-", "T", "y", "p", "e">>

\* text/plain
TextPlain ==
    <<"t", "e", "x", "t", "/", "p", "l", "a", "i", "n">>

\* Content-Length
ContentLength ==
    <<"C", "o", "n", "t", "e", "n", "t", "-", "L", "e", "n", "g", "t",
      "h">>

\* HTTP/1.1
Http11 ==
    <<"H", "T", "T", "P", "/", "1", ".", "1">>

\* HTTP/1.0
Http10 ==
    <<"H", "T", "T", "P", "/", "1", ".", "0">>

\* The route is unknown
RouteUnknown ==
    <<"T", "h", "e", " ", "r", "o", "u", "t", "e", " ", "i", "s", " ", "u",
      "n", "k", "n", "o", "w", "n">>

\* hi
BodyHi ==
    <<"h", "i">>

-----------------------------------------------------------------------------
(* HttpRequest::parse driven directly: the bytes of a request text arrive  *)
(* one by one, and parse is called on what has arrived, with the input     *)
(* open or closed.                                                         *)

NotCalled == [kind |-> "NotCalled"]

Received == TakeFirst(p_text, p_len)

IdleParse ==
    /\ p_text = <<>>
    /\ p_len = 0
    /\ p_done = FALSE
    /\ p_res = NotCalled

ParseReceive ==
    /\ ~p_done
    /\ p_len < Len(p_text)
    /\ p_len' = p_len + 1
    /\ p_res' = NotCalled
    /\ UNCHANGED <<p_text, p_done>>

ParseCall(done) ==
    /\ p_res = NotCalled
    /\ p_res' = parse(Received, done)
    /\ p_done' = done
    /\ UNCHANGED <<p_text, p_len>>

-----------------------------------------------------------------------------
(* calc_next_token driven directly, as main drives it: an allocation       *)
(* followed by the insertion of its result, and releases.                  *)

IdleAlloc ==
    /\ a_used = {}
    /\ a_last = 0
    /\ a_res = NotCalled

AllocCall ==
    /\ a_res = NotCalled
    /\ a_res' = calc_next_token(a_used, a_last)
    /\ UNCHANGED <<a_used, a_last>>

\* main: last_token = calc_next_token(..)?; used_tokens.insert(last_token)
AllocInsert ==
    /\ a_res.kind = "Some"
    /\ a_last' = a_res.token
    /\ a_used' = a_used \cup {a_res.token}
    /\ a_res' = NotCalled

\* main: used_tokens.remove(&token)
AllocRelease(t) ==
    /\ a_res = NotCalled
    /\ t \in a_used
    /\ a_used' = a_used \ {t}
    /\ UNCHANGED <<a_last, a_res>>

-----------------------------------------------------------------------------
(* HttpResponse::new and unparse driven directly.                          *)

NotBuilt == [status |-> 0]

IdleUnparse ==
    /\ u_resp = NotBuilt
    /\ u_out = <<>>

Versions == {Http11, Http10}
Statuses == {200, 400, 404, 501, 500}
HeaderLists ==
    {<<>>,
     <<<<ContentType, TextPlain>>>>,
     <<<<ContentLength, <<"5">>>>>>,
     <<<<ContentType, TextPlain>>, <<ContentLength, <<"2">>>>>>}
Bodies == {Str(<<>>), Str(RouteUnknown), String(BodyHi)}

UnparseNew(version, status, headers, body) ==
    /\ u_resp.status = 0
    /\ u_resp' = HttpResponse_new(version, status, headers, body)
    /\ UNCHANGED u_out

UnparseCall ==
    /\ u_resp.status # 0
    /\ u_out = <<>>
    /\ u_out' = unparse(u_resp)
    /\ UNCHANGED u_resp

-----------------------------------------------------------------------------
(* HttpServer (src/src/http.rs): the registry and one connection's I/O.    *)
(*                                                                         *)
(* A call on a socket cannot be decided by the program: what the socket    *)
(* does during one handler call is an input of the call.  A read script    *)
(* [data, end] says which bytes the socket hands over before its reads end *)
(* with `end` (WouldBlock, a read of zero bytes, or an error); a write     *)
(* script [budget, end] says how many bytes the socket takes before its    *)
(* writes end with `end`.                                                  *)

\* Stands for CHUNK_SIZE (8192): the growth step of the buffer, scaled down.
CHUNK_SIZE == 4

NewConnection == [buffer |-> <<>>, buffer_idx |-> 0, mode |-> "Reading"]

\* cx.buffer.resize(cx.buffer.len() + CHUNK_SIZE, 0)
Resize(buffer) == buffer \o [i \in 1..CHUNK_SIZE |-> "\\0"]

\* stream.read(&mut cx.buffer[cx.buffer_idx..]) returning Ok(n): the first
\* n bytes of data land at the cursor.
ReadInto(cx, data, n) ==
    [cx EXCEPT
        !.buffer = [i \in 1..Len(@) |->
                       IF i > cx.buffer_idx /\ i <= cx.buffer_idx + n
                       THEN data[i - cx.buffer_idx] ELSE @[i]],
        !.buffer_idx = @ + n]

\* perform_reads with one read in place of the loop: it returns after the
\* first chunk.
perform_reads_once(cx, data, end) ==
    LET grown == IF Len(cx.buffer) - cx.buffer_idx = 0
                 THEN [cx EXCEPT !.buffer = Resize(@)] ELSE cx
        n == Min(Len(grown.buffer) - grown.buffer_idx, Len(data))
    IN IF data # <<>>
       THEN [cx |-> ReadInto(grown, data, n), result |-> "Ok(true)"]
       ELSE IF end = "Zero" THEN [cx |-> grown, result |-> "Ok(true)"]
       ELSE IF end = "WouldBlock" THEN [cx |-> grown, result |-> "Ok(true)"]
       ELSE [cx |-> grown, result |-> "Err"]

\* perform_reads with every read error taken for WouldBlock.
RECURSIVE perform_reads_any_error(_, _, _)
perform_reads_any_error(cx, data, end) ==
    LET grown == IF Len(cx.buffer) - cx.buffer_idx = 0
                 THEN [cx EXCEPT !.buffer = Resize(@)] ELSE cx
        n == Min(Len(grown.buffer) - grown.buffer_idx, Len(data))
    IN IF data # <<>>
       THEN perform_reads_any_error(ReadInto(grown, data, n),
                                    DropFirst(data, n), end)
       ELSE [cx |-> grown, result |-> "Ok(true)"]

\* perform_reads: result "Ok(true)", "Ok(false)" or "Err".
RECURSIVE perform_reads(_, _, _)
perform_reads(cx, data, end) ==
    LET grown == IF Len(cx.buffer) - cx.buffer_idx = 0
                 THEN [cx EXCEPT !.buffer = Resize(@)] ELSE cx
        n == Min(Len(grown.buffer) - grown.buffer_idx, Len(data))
    IN IF data # <<>>
       THEN perform_reads(ReadInto(grown, data, n), DropFirst(data, n), end)
       ELSE IF end = "Zero" THEN [cx |-> grown, result |-> "Ok(true)"]
       ELSE IF end = "WouldBlock" THEN [cx |-> grown, result |-> "Ok(true)"]
       ELSE [cx |-> grown, result |-> "Err"]

\* perform_writes treating a write of zero bytes as a write that would
\* block.
RECURSIVE perform_writes_zero_blocks(_, _, _, _)
perform_writes_zero_blocks(cx, budget, end, wrote) ==
    IF ~(cx.buffer_idx < Len(cx.buffer))
    THEN [cx |-> cx, all |-> TRUE, wrote |-> wrote, how |-> "Flushed"]
    ELSE IF budget > 0
    THEN LET n == Min(budget, Len(cx.buffer) - cx.buffer_idx) IN
         perform_writes_zero_blocks([cx EXCEPT !.buffer_idx = @ + n],
             budget - n, end,
             wrote \o SubSeq(cx.buffer, cx.buffer_idx + 1, cx.buffer_idx + n))
    ELSE IF end = "Zero"
    THEN [cx |-> cx, all |-> FALSE, wrote |-> wrote, how |-> "Zero"]
    ELSE IF end = "WouldBlock"
    THEN [cx |-> cx, all |-> FALSE, wrote |-> wrote, how |-> "WouldBlock"]
    ELSE [cx |-> cx, all |-> TRUE, wrote |-> wrote, how |-> "Err"]

\* perform_writes advancing the cursor one byte too far after each write.
RECURSIVE perform_writes_skip(_, _, _, _)
perform_writes_skip(cx, budget, end, wrote) ==
    IF ~(cx.buffer_idx < Len(cx.buffer))
    THEN [cx |-> cx, all |-> TRUE, wrote |-> wrote, how |-> "Flushed"]
    ELSE IF budget > 0
    THEN LET n == Min(budget, Len(cx.buffer) - cx.buffer_idx) IN
         perform_writes_skip([cx EXCEPT !.buffer_idx = @ + n + 1],
             budget - n, end,
             wrote \o SubSeq(cx.buffer, cx.buffer_idx + 1, cx.buffer_idx + n))
    ELSE IF end = "Zero"
    THEN [cx |-> cx, all |-> TRUE, wrote |-> wrote, how |-> "Zero"]
    ELSE IF end = "WouldBlock"
    THEN [cx |-> cx, all |-> FALSE, wrote |-> wrote, how |-> "WouldBlock"]
    ELSE [cx |-> cx, all |-> TRUE, wrote |-> wrote, how |-> "Err"]

\* perform_writes: `all` is its return value, `wrote` the bytes the socket
\* took, `how` the way the loop ended.
RECURSIVE perform_writes(_, _, _, _)
perform_writes(cx, budget, end, wrote) ==
    IF ~(cx.buffer_idx < Len(cx.buffer))
    THEN [cx |-> cx, all |-> TRUE, wrote |-> wrote, how |-> "Flushed"]
    ELSE IF budget > 0
    THEN LET n == Min(budget, Len(cx.buffer) - cx.buffer_idx) IN
         perform_writes([cx EXCEPT !.buffer_idx = @ + n], budget - n, end,
             wrote \o SubSeq(cx.buffer, cx.buffer_idx + 1, cx.buffer_idx + n))
    ELSE IF end = "Zero"
    THEN [cx |-> cx, all |-> TRUE, wrote |-> wrote, how |-> "Zero"]
    ELSE IF end = "WouldBlock"
    THEN [cx |-> cx, all |-> FALSE, wrote |-> wrote, how |-> "WouldBlock"]
    ELSE [cx |-> cx, all |-> TRUE, wrote |-> wrote, how |-> "Err"]

\* str::from_utf8 on the bytes of the model: all are ASCII but 0xFF, which
\* no UTF-8 text holds.
IsUtf8(bytes) == \A i \in 1..Len(bytes) : bytes[i] # "\\xFF"

\* The response try_parse_request builds when the parser fails.
BadRequest ==
    [body |-> Str(<<>>), status |-> 400, status_text |-> StatusText(400),
     headers |-> <<>>, version |-> Http11]

\* The handler main installs, ChatHttpServer::issue, as far as the
\* connection sees it: a response made by HttpResponse::new with the
\* request's version; `out` is the status, headers and body it chooses.
handler(req, out) ==
    HttpResponse_new(req.version, out.status, out.headers, out.body)

\* try_parse_request leaving the cursor where the reads left it.
try_parse_request_keep_cursor(cx, out) ==
    LET input == TakeFirst(cx.buffer, cx.buffer_idx)
        Repurposed(bytes, parsed, handled) ==
            [cx |-> [buffer |-> bytes,
                     buffer_idx |-> Min(cx.buffer_idx, Len(bytes)),
                     mode |-> "Writing"],
             parsed |-> parsed, handled |-> handled, resp |-> bytes]
        Parsed(r) ==
            IF r.kind = "Complete"
            THEN Repurposed(unparse(handler(r.req, out)), "Complete", 1)
            ELSE IF r.kind = "Incomplete"
            THEN [cx |-> cx, parsed |-> "Incomplete", handled |-> 0,
                  resp |-> <<>>]
            ELSE Repurposed(unparse(BadRequest), "Malformed", 0)
    IN IF ~IsUtf8(input)
       THEN [cx |-> cx, parsed |-> "NotUtf8", handled |-> 0, resp |-> <<>>]
       ELSE Parsed(parse(input, cx.mode = "Writing"))

\* try_parse_request: `parsed` is what became of the accumulated bytes,
\* `handled` the number of handler invocations.
try_parse_request(cx, out) ==
    LET input == TakeFirst(cx.buffer, cx.buffer_idx)
        Repurposed(bytes, parsed, handled) ==
            [cx |-> [buffer |-> bytes, buffer_idx |-> 0, mode |-> "Writing"],
             parsed |-> parsed, handled |-> handled, resp |-> bytes]
        Parsed(r) ==
            IF r.kind = "Complete"
            THEN Repurposed(unparse(handler(r.req, out)), "Complete", 1)
            ELSE IF r.kind = "Incomplete"
            THEN [cx |-> cx, parsed |-> "Incomplete", handled |-> 0,
                  resp |-> <<>>]
            ELSE Repurposed(unparse(BadRequest), "Malformed", 0)
    IN IF ~IsUtf8(input)
       THEN [cx |-> cx, parsed |-> "NotUtf8", handled |-> 0, resp |-> <<>>]
       ELSE Parsed(parse(input, cx.mode = "Writing"))

\* is_connection_active answering true for every identifier.
is_connection_active_always(conns, token) == TRUE

\* is_connection_active
is_connection_active(conns, token) == token \in DOMAIN conns

\* HashMap::insert / HashMap::remove
Insert(f, k, v) == [x \in DOMAIN f \cup {k} |-> IF x = k THEN v ELSE f[x]]
Remove(f, k) == [x \in DOMAIN f \ {k} |-> f[x]]

\* What one call of connection_readable or connection_writable did:
\*   acted    the call found the connection, in the mode it acts on
\*   read_end how the reads ended ("None": no read)
\*   nd       what the parser makes of the accumulated bytes while the input
\*            is still open (parse(.., false)), "NotUtf8" or "None"
\*   parsed   what try_parse_request made of them, or "None"
\*   handled  the number of handler invocations
\*   resp     the response serialized into the buffer (<<>>: none)
\*   wrote    the bytes the socket took
\*   how      how perform_writes ended ("None": not called)
\*   removed  the call removed the connection
\*   data     the bytes the socket handed over to this call's reads
\*   input    the bytes accumulated when the reads ended
\*   cap      the length of the buffer when the reads ended
NoObs ==
    [acted |-> FALSE, read_end |-> "None", nd |-> "None", parsed |-> "None",
     handled |-> 0, resp |-> <<>>, wrote |-> <<>>, how |-> "None",
     removed |-> FALSE, data |-> <<>>, input |-> <<>>, cap |-> 0,
     rd_idx |-> 0, wr_idx |-> 0, wr_len |-> 0]

NoOut == [status |-> 0, headers |-> <<>>, body |-> Str(<<>>)]
NoRead == [data |-> <<>>, end |-> "WouldBlock"]
NoWrite == [take |-> "none", end |-> "WouldBlock"]

\* The bytes a write script lets the socket take of cx's unsent bytes.
WriteStep == 40
BudgetOf(wr, cx) ==
    IF wr.take = "all" THEN Len(cx.buffer)
    ELSE IF wr.take = "some" THEN WriteStep
    ELSE 0

\* parse(.., false) on what was accumulated: the observation `nd`.
OpenInputKind(cx) ==
    LET input == TakeFirst(cx.buffer, cx.buffer_idx) IN
    IF IsUtf8(input) THEN parse(input, FALSE).kind ELSE "NotUtf8"

\* The end of both calls: perform_writes has returned w for the connection,
\* which is removed when it returned true.
AfterWrites(conns, token, obs, w) ==
    [conns |-> IF w.all THEN Remove(conns, token)
               ELSE [conns EXCEPT ![token] = w.cx],
     obs |-> [obs EXCEPT !.wrote = w.wrote, !.how = w.how, !.removed = w.all,
                         !.wr_idx = w.cx.buffer_idx,
                         !.wr_len = Len(w.cx.buffer)]]

\* connection_writable without its `self.connections.remove(&token)`.
connection_writable_keep(conns, token, wr) ==
    LET Kept(w) ==
            [conns |-> [conns EXCEPT ![token] = w.cx],
             obs |-> [NoObs EXCEPT !.acted = TRUE, !.wrote = w.wrote,
                                   !.how = w.how]]
    IN IF token \in DOMAIN conns /\ conns[token].mode = "Writing"
       THEN Kept(perform_writes(conns[token], BudgetOf(wr, conns[token]),
                                wr.end, <<>>))
       ELSE [conns |-> conns, obs |-> NoObs]

\* connection_writable without its test of the mode.
connection_writable_any_mode(conns, token, wr) ==
    IF token \in DOMAIN conns
    THEN AfterWrites(conns, token, [NoObs EXCEPT !.acted = TRUE],
             perform_writes(conns[token], BudgetOf(wr, conns[token]),
                            wr.end, <<>>))
    ELSE [conns |-> conns, obs |-> NoObs]

\* connection_writable
connection_writable(conns, token, wr) ==
    IF token \in DOMAIN conns /\ conns[token].mode = "Writing"
    THEN AfterWrites(conns, token, [NoObs EXCEPT !.acted = TRUE],
             perform_writes(conns[token], BudgetOf(wr, conns[token]),
                            wr.end, <<>>))
    ELSE [conns |-> conns, obs |-> NoObs]

\* connection_readable up to and including try_parse_request.
ReadPhase(cx, rd, out) ==
    LET Seen(r) ==
            [NoObs EXCEPT !.acted = TRUE, !.read_end = rd.end,
                          !.data = rd.data,
                          !.input = TakeFirst(r.cx.buffer, r.cx.buffer_idx),
                          !.cap = Len(r.cx.buffer),
                          !.rd_idx = r.cx.buffer_idx]
        Parsed(r, p) ==
            [cx |-> p.cx, ok |-> TRUE,
             obs |-> [Seen(r) EXCEPT
                                   !.nd = OpenInputKind(r.cx),
                                   !.parsed = p.parsed,
                                   !.handled = p.handled, !.resp = p.resp]]
        Read(r) ==
            IF r.result = "Err"
            THEN [cx |-> [r.cx EXCEPT !.mode = "Writing"], ok |-> FALSE,
                  obs |-> [Seen(r) EXCEPT !.removed = TRUE]]
            ELSE Parsed(r, try_parse_request(
                            IF r.result = "Ok(true)"
                            THEN [r.cx EXCEPT !.mode = "Writing"] ELSE r.cx,
                            out))
    IN Read(perform_reads(cx, rd.data, rd.end))

\* connection_readable without the write attempt that follows
\* try_parse_request: the response waits for a writable event.
connection_readable_no_write(conns, token, rd, out, wr) ==
    LET Read(p) ==
            IF ~p.ok THEN [conns |-> Remove(conns, token), obs |-> p.obs]
            ELSE [conns |-> [conns EXCEPT ![token] = p.cx], obs |-> p.obs]
    IN IF token \in DOMAIN conns /\ conns[token].mode = "Reading"
       THEN Read(ReadPhase(conns[token], rd, out))
       ELSE [conns |-> conns, obs |-> NoObs]

\* connection_readable emptying the registry on a read error, in place of
\* removing the one connection.
connection_readable_clear(conns, token, rd, out, wr) ==
    LET Read(p) ==
            IF ~p.ok THEN [conns |-> <<>>, obs |-> p.obs]
            ELSE IF p.cx.mode = "Writing"
            THEN AfterWrites(conns, token, p.obs,
                     perform_writes(p.cx, BudgetOf(wr, p.cx), wr.end, <<>>))
            ELSE [conns |-> [conns EXCEPT ![token] = p.cx], obs |-> p.obs]
    IN IF token \in DOMAIN conns /\ conns[token].mode = "Reading"
       THEN Read(ReadPhase(conns[token], rd, out))
       ELSE [conns |-> conns, obs |-> NoObs]

\* connection_readable without its test of the mode.
connection_readable_any_mode(conns, token, rd, out, wr) ==
    LET Read(p) ==
            IF ~p.ok THEN [conns |-> Remove(conns, token), obs |-> p.obs]
            ELSE IF p.cx.mode = "Writing"
            THEN AfterWrites(conns, token, p.obs,
                     perform_writes(p.cx, BudgetOf(wr, p.cx), wr.end, <<>>))
            ELSE [conns |-> [conns EXCEPT ![token] = p.cx], obs |-> p.obs]
    IN IF token \in DOMAIN conns
       THEN Read(ReadPhase(conns[token], rd, out))
       ELSE [conns |-> conns, obs |-> NoObs]

\* connection_readable
connection_readable(conns, token, rd, out, wr) ==
    LET Read(p) ==
            IF ~p.ok THEN [conns |-> Remove(conns, token), obs |-> p.obs]
            ELSE IF p.cx.mode = "Writing"
            THEN AfterWrites(conns, token, p.obs,
                     perform_writes(p.cx, BudgetOf(wr, p.cx), wr.end, <<>>))
            ELSE [conns |-> [conns EXCEPT ![token] = p.cx], obs |-> p.obs]
    IN IF token \in DOMAIN conns /\ conns[token].mode = "Reading"
       THEN Read(ReadPhase(conns[token], rd, out))
       ELSE [conns |-> conns, obs |-> NoObs]

\* connection_accepted
connection_accepted(conns, token) == Insert(conns, token, NewConnection)

-----------------------------------------------------------------------------
(* The peers: what the sockets do.                                         *)

\* GET /x HTTP/1.0\r\n\r\n
SrvGet ==
    <<"G", "E", "T", " ", "/", "x", " ", "H", "T", "T", "P", "/", "1", ".",
      "0", "\r", "\n", "\r", "\n">>

\* POST /x HTTP/1.1\r\n\r\nhi
SrvPost ==
    <<"P", "O", "S", "T", " ", "/", "x", " ", "H", "T", "T", "P", "/", "1",
      ".", "1", "\r", "\n", "\r", "\n", "h", "i">>

\* PUT /x HTTP/1.1\r\n\r\n
SrvPut ==
    <<"P", "U", "T", " ", "/", "x", " ", "H", "T", "T", "P", "/", "1", ".",
      "1", "\r", "\n", "\r", "\n">>

\* Gÿ
SrvBad ==
    <<"G", "\\xFF">>

\* PUT /x HTTP/1.0\r\n\r\n
SrvPut10 ==
    <<"P", "U", "T", " ", "/", "x", " ", "H", "T", "T", "P", "/", "1", ".",
      "0", "\r", "\n", "\r", "\n">>

\* GET /x\r\n\r\n
SrvNoVersion ==
    <<"G", "E", "T", " ", "/", "x", "\r", "\n", "\r", "\n">>

\* The requests the peers of the model send, each with the offsets at which
\* its bytes may stop arriving for a while (the end of a TCP segment).
PeerTexts ==
    {[text |-> SrvGet, cuts |-> {0, 5, 16, 17, 19}],
     [text |-> SrvPost, cuts |-> {0, 18, 20, 21, 22}],
     [text |-> SrvPut, cuts |-> {0, 17, 19}],
     [text |-> SrvBad, cuts |-> {0, 1, 2}],
     [text |-> SrvPut10, cuts |-> {19}],
     [text |-> SrvNoVersion, cuts |-> {10}]}

\* The peers main is run against.
MainPeerTexts ==
    {[text |-> SrvGet, cuts |-> {0, 19}],
     [text |-> SrvPut, cuts |-> {19}]}

ReadEnds == {"WouldBlock", "Zero", "Err"}
WriteEnds == {"WouldBlock", "Zero", "Err"}

\* The read scripts open to a connection that has received cx.buffer_idx
\* bytes: the bytes that follow them in a peer's text up to one of its
\* cuts, and the way the reads end.
ReadScripts(cx, texts) ==
    UNION {{[data |-> SubSeq(T.text, cx.buffer_idx + 1, c), end |-> e] :
               c \in {k \in T.cuts : k >= cx.buffer_idx}, e \in ReadEnds} :
           T \in {U \in texts : TakeFirst(U.text, cx.buffer_idx)
                                  = TakeFirst(cx.buffer, cx.buffer_idx)}}

WriteScripts ==
    {[take |-> "all", end |-> "WouldBlock"]}
    \cup {[take |-> k, end |-> e] : k \in {"none", "some"}, e \in WriteEnds}

MainWriteScripts ==
    {[take |-> "all", end |-> "WouldBlock"],
     [take |-> "none", end |-> "WouldBlock"],
     [take |-> "none", end |-> "Err"]}

\* What the handler answers: the route-unknown response of
\* ChatHttpServer::issue and a 200 with an owned body.
HandlerOutputs ==
    {[status |-> 404, headers |-> <<<<ContentType, TextPlain>>>>,
      body |-> Str(RouteUnknown)],
     [status |-> 200, headers |-> <<<<ContentType, TextPlain>>>>,
      body |-> String(BodyHi)]}

\* The inputs a call depends on: a read script when it reads, a handler
\* output when the parser completes, a write script when it writes.
ReadChoices(conns, t, texts) ==
    IF t \in DOMAIN conns /\ conns[t].mode = "Reading"
    THEN ReadScripts(conns[t], texts) ELSE {NoRead}

OutChoices(conns, t, rd) ==
    IF t \in DOMAIN conns /\ conns[t].mode = "Reading"
       /\ ReadPhase(conns[t], rd, NoOut).obs.parsed = "Complete"
    THEN HandlerOutputs ELSE {NoOut}

ReadWriteChoices(conns, t, rd, scripts) ==
    LET Writes(p) == p.ok /\ p.cx.mode = "Writing" IN
    IF t \in DOMAIN conns /\ conns[t].mode = "Reading"
       /\ Writes(ReadPhase(conns[t], rd, NoOut))
    THEN scripts ELSE {NoWrite}

WriteChoices(conns, t, scripts) ==
    IF t \in DOMAIN conns /\ conns[t].mode = "Writing"
    THEN scripts ELSE {NoWrite}

-----------------------------------------------------------------------------
(* Observation: per open connection what its socket has been sent so far,  *)
(* and per event what the calls did.                                       *)

\* state: "open", or how the connection went: "flushed" (removed with its
\* buffer fully sent) or "dropped" (removed otherwise).
\* blocked: the socket's last write ended with WouldBlock, so that a
\* writable event is owed to the connection.
NewSock ==
    [state |-> "open", sent |-> <<>>, handled |-> 0, resp |-> <<>>,
     blocked |-> FALSE]

Gone(how) ==
    [state |-> how, sent |-> <<>>, handled |-> 0, resp |-> <<>>,
     blocked |-> FALSE]

SockAfter(sk, t, obs) ==
    IF t \notin DOMAIN sk \/ sk[t].state # "open" THEN sk
    ELSE IF obs.removed
    THEN [sk EXCEPT ![t] = Gone(IF obs.how = "Flushed" THEN "flushed"
                                ELSE "dropped")]
    ELSE [sk EXCEPT ![t] =
            [state |-> "open",
             sent |-> @.sent \o obs.wrote,
             handled |-> @.handled + obs.handled,
             resp |-> IF obs.resp # <<>> THEN obs.resp ELSE @.resp,
             blocked |-> obs.how = "WouldBlock"
                         \/ (obs.how = "None" /\ @.blocked)]]

\* All the bytes the socket of t has taken, this event's included.
SentAfter(sk, t, r, w) ==
    (IF t \in DOMAIN sk THEN sk[t].sent ELSE <<>>) \o r.wrote \o w.wrote

\* What the two calls of an event would have done in the other order:
\* the registry, the bytes the socket took and the handler invocations.
NoAlt == [conns |-> <<>>, sent |-> <<>>, handled |-> 0]

Event(op, t, r, w, accepted) ==
    [op |-> op, token |-> t, r |-> r, w |-> w,
     sent |-> SentAfter(sock, t, r, w), accepted |-> accepted,
     alt |-> NoAlt]

NoEvent ==
    [op |-> "none", token |-> 0, r |-> NoObs, w |-> NoObs, sent |-> <<>>,
     accepted |-> 0, alt |-> NoAlt]

IdleServer ==
    /\ connections = <<>>
    /\ used_tokens = {}
    /\ last_token = SERVER
    /\ pc = "running"
    /\ sock = <<>>
    /\ ev = NoEvent

-----------------------------------------------------------------------------
(* HttpServer driven through its public methods.                           *)

\* The identifiers the caller uses.
HttpTokens == {1, 2}

\* connection_accepted, called with an identifier that no open connection
\* holds.
Accepted(t) ==
    /\ t \notin DOMAIN connections
    /\ connections' = connection_accepted(connections, t)
    /\ sock' = Insert(sock, t, NewSock)
    /\ ev' = Event("accepted", t, NoObs, NoObs, 1)
    /\ UNCHANGED <<used_tokens, last_token, pc>>

\* The state after a call that returned c; r and w are what the event's
\* calls did.
Called(op, t, c, r, w) ==
    /\ connections' = c.conns
    /\ sock' = LET sk == SockAfter(SockAfter(sock, t, r), t, w) IN
               IF op = "token" /\ t \in DOMAIN sk
                  /\ ~is_connection_active(c.conns, t)
               THEN Remove(sk, t) ELSE sk
    /\ ev' = Event(op, t, r, w, 0)

Readable(t) ==
    \E rd \in ReadChoices(connections, t, PeerTexts) :
    \E out \in OutChoices(connections, t, rd) :
    \E wr \in ReadWriteChoices(connections, t, rd, WriteScripts) :
        LET Done(c) == Called("readable", t, c, c.obs, NoObs) IN
        /\ Done(connection_readable(connections, t, rd, out, wr))
        /\ UNCHANGED <<used_tokens, last_token, pc>>

Writable(t) ==
    \E wr \in WriteChoices(connections, t, WriteScripts) :
        LET Done(c) == Called("writable", t, c, NoObs, c.obs) IN
        /\ Done(connection_writable(connections, t, wr))
        /\ UNCHANGED <<used_tokens, last_token, pc>>

\* The socket of a write script after a call: once a call has written to
\* it, it has taken the bytes it takes and its next write ends as the last
\* one did.
SocketAfter(wr, obs) ==
    IF obs.how # "None" THEN [take |-> "none", end |-> wr.end] ELSE wr

\* An event that is both readable and writable, as main's token arm
\* dispatches it: connection_readable, then connection_writable on the
\* same socket.  The observation `alt` is what connection_writable then
\* connection_readable do from the same state on the same socket.
BothReady(t) ==
    \E rd \in ReadChoices(connections, t, PeerTexts) :
    \E out \in OutChoices(connections, t, rd) :
    \E wr \in (IF t \in DOMAIN connections THEN WriteScripts ELSE {NoWrite}) :
        LET Done(c1, c2, d1, d2) ==
                /\ connections' = c2.conns
                /\ sock' = SockAfter(SockAfter(sock, t, c1.obs), t, c2.obs)
                /\ ev' = [Event("both", t, c1.obs, c2.obs, 0) EXCEPT
                             !.alt = [conns |-> d2.conns,
                                      sent |-> d1.obs.wrote \o d2.obs.wrote,
                                      handled |-> d1.obs.handled
                                                  + d2.obs.handled]]
            Other(c1, c2, d1) ==
                Done(c1, c2, d1,
                     connection_readable(d1.conns, t, rd, out,
                                         SocketAfter(wr, d1.obs)))
            Second(c1, c2) ==
                Other(c1, c2, connection_writable(connections, t, wr))
            First(c1) ==
                Second(c1, connection_writable(c1.conns, t,
                                               SocketAfter(wr, c1.obs)))
        IN /\ First(connection_readable(connections, t, rd, out, wr))
           /\ UNCHANGED <<used_tokens, last_token, pc>>

-----------------------------------------------------------------------------
(* main (src/src/bin/chat_server.rs): the event loop.                      *)

\* The peers open at most this many connections at a time.
MaxConns == 2

\* The SERVER arm: the accept loop with k connections pending, ending with
\* accept's WouldBlock, with an error of accept, or with one more stream
\* accepted whose poll.register fails; main returns either error.
RECURSIVE AcceptLoop(_, _, _)
AcceptLoop(st, k, end) ==
    IF k = 0
    THEN IF end = "WouldBlock" THEN st
         ELSE IF end = "Err" THEN [st EXCEPT !.pc = "exited"]
         ELSE LET next == calc_next_token(st.used_tokens, st.last_token) IN
              IF next.kind = "None" THEN [st EXCEPT !.pc = "exited"]
              ELSE IF next.kind = "Diverges" THEN [st EXCEPT !.pc = "hung"]
              ELSE [st EXCEPT !.last_token = next.token,
                              !.used_tokens = @ \cup {next.token},
                              !.pc = "exited"]
    ELSE LET next == calc_next_token(st.used_tokens, st.last_token) IN
         IF next.kind = "None" THEN [st EXCEPT !.pc = "exited"]
         ELSE IF next.kind = "Diverges" THEN [st EXCEPT !.pc = "hung"]
         ELSE AcceptLoop(
                [st EXCEPT
                    !.last_token = next.token,
                    !.used_tokens = @ \cup {next.token},
                    !.connections = connection_accepted(@, next.token),
                    !.sock = Insert(@, next.token, NewSock),
                    !.accepted = @ + 1],
                k - 1, end)

ServerEvent(k, end) ==
    LET Done(st) ==
            /\ connections' = st.connections
            /\ used_tokens' = st.used_tokens
            /\ last_token' = st.last_token
            /\ pc' = st.pc
            /\ sock' = st.sock
            /\ ev' = Event("server", SERVER, NoObs, NoObs, st.accepted)
    IN /\ pc = "running"
       /\ Cardinality(DOMAIN connections) + k <= MaxConns
       /\ Done(AcceptLoop([connections |-> connections,
                           used_tokens |-> used_tokens,
                           last_token |-> last_token,
                           pc |-> pc, sock |-> sock, accepted |-> 0],
                          k, end))

\* The `token =>` arm: the calls the readiness asks for, then the release
\* of the identifier of a connection that is no longer active.
TokenEvent(t, readable, writable) ==
    LET Done(c1, c2) ==
            /\ Called("token", t, c2, c1.obs, c2.obs)
            /\ used_tokens' =
                   IF ~is_connection_active(c2.conns, t)
                   THEN used_tokens \ {t} ELSE used_tokens
            /\ UNCHANGED <<last_token, pc>>
        Write(c1) ==
            \E wr2 \in (IF writable
                        THEN WriteChoices(c1.conns, t, MainWriteScripts)
                        ELSE {NoWrite}) :
                Done(c1, IF writable
                         THEN connection_writable(c1.conns, t, wr2)
                         ELSE [conns |-> c1.conns, obs |-> NoObs])
    IN /\ pc = "running"
       /\ \E rd \in (IF readable
                     THEN ReadChoices(connections, t, MainPeerTexts)
                     ELSE {NoRead}) :
          \E out \in (IF readable THEN OutChoices(connections, t, rd)
                      ELSE {NoOut}) :
          \E wr1 \in (IF readable
                      THEN ReadWriteChoices(connections, t, rd,
                                            MainWriteScripts)
                      ELSE {NoWrite}) :
             Write(IF readable
                   THEN connection_readable(connections, t, rd, out, wr1)
                   ELSE [conns |-> connections, obs |-> NoObs])

-----------------------------------------------------------------------------
(* ChatServer (src/src/chat.rs): the domain logic.                         *)
(* A ChatServer value is the record of its three maps; a HashMap is a      *)
(* function on the set of its keys, a Vec a sequence.                      *)

ChatServer_new == [chats |-> <<>>, chats_by_user_id |-> <<>>,
                   contact_lists |-> <<>>]

\* Vec::contains.
Contains(list, x) == \E i \in 1..Len(list) : list[i] = x

ChatRef(id, destination_user_id) ==
    [id |-> id, destination_user_id |-> destination_user_id]

\* A ChatResponse: the variant and what it carries.
Response(kind) == [kind |-> kind, messages |-> <<>>, chats |-> <<>>]
ChatListed(messages) == [Response("ChatListed") EXCEPT !.messages = messages]
ChatsListed(listed) == [Response("ChatsListed") EXCEPT !.chats = listed]

\* ChatServer::chat_id: the first reference of the source user whose
\* destination is the other user.
chat_id(self, source_user_id, destination_user_id) ==
    IF source_user_id \notin DOMAIN self.chats_by_user_id THEN None
    ELSE LET refs == self.chats_by_user_id[source_user_id]
             hits == {i \in 1..Len(refs) :
                         refs[i].destination_user_id = destination_user_id}
         IN IF hits = {} THEN None
            ELSE Some(refs[CHOOSE i \in hits : \A j \in hits : i <= j].id)

\* The scan of StoredChat::insert also passing the messages of the same
\* timestamp.
RECURSIVE InsertScan_past_equal(_, _, _)
InsertScan_past_equal(messages, timestamp, i) ==
    IF i > 0 /\ messages[i].timestamp >= timestamp
    THEN InsertScan_past_equal(messages, timestamp, i - 1)
    ELSE i

\* The scan of StoredChat::insert: from the end, past every message that
\* is strictly newer.
RECURSIVE InsertScan(_, _, _)
InsertScan(messages, timestamp, i) ==
    IF i > 0 /\ messages[i].timestamp > timestamp
    THEN InsertScan(messages, timestamp, i - 1)
    ELSE i

StoredChat_insert(chat, id, source_user_id, destination_user_id, timestamp, message) ==
    LET chat_message == [id |-> id, timestamp |-> timestamp,
                         message |-> message,
                         source_user_id |-> source_user_id,
                         destination_user_id |-> destination_user_id]
        len == Len(chat.messages)
        i == InsertScan(chat.messages, timestamp, len)
    IN [chat EXCEPT !.messages =
           IF i = len THEN Append(@, chat_message)
           ELSE SubSeq(@, 1, i) \o <<chat_message>> \o SubSeq(@, i + 1, len)]

\* entry(user).or_insert_with(Vec::new).push(ref)
PushRef(by_user, user, ref) ==
    Insert(by_user, user,
           Append(IF user \in DOMAIN by_user THEN by_user[user] ELSE <<>>,
                  ref))

\* contact_lists.get(a).map_or(false, |list| list.contains(b))
Lists(self, a, b) ==
    a \in DOMAIN self.contact_lists /\ Contains(self.contact_lists[a], b)

\* The CreateChat arm refusing a taken id only, not a pair that already
\* shares a chat.
CreateChat_id_only(self, id, participant_ids) ==
    IF id \in DOMAIN self.chats
    THEN [self |-> self, response |-> Response("ChatAlreadyExists")]
    ELSE IF \/ ~Lists(self, participant_ids[1], participant_ids[2])
            \/ ~Lists(self, participant_ids[2], participant_ids[1])
    THEN [self |-> self, response |-> Response("ChatValidationError")]
    ELSE [self |->
            [self EXCEPT
               !.chats = Insert(@, id, [participant_ids |-> participant_ids,
                                        messages |-> <<>>]),
               !.chats_by_user_id =
                   PushRef(PushRef(@, participant_ids[1],
                                   ChatRef(id, participant_ids[2])),
                           participant_ids[2],
                           ChatRef(id, participant_ids[1]))],
          response |-> Response("ChatCreated")]

\* The CreateChat arm asking only the first participant's contact list.
CreateChat_one_sided(self, id, participant_ids) ==
    IF \/ id \in DOMAIN self.chats
       \/ chat_id(self, participant_ids[1], participant_ids[2]) # None
    THEN [self |-> self, response |-> Response("ChatAlreadyExists")]
    ELSE IF ~Lists(self, participant_ids[1], participant_ids[2])
    THEN [self |-> self, response |-> Response("ChatValidationError")]
    ELSE [self |->
            [self EXCEPT
               !.chats = Insert(@, id, [participant_ids |-> participant_ids,
                                        messages |-> <<>>]),
               !.chats_by_user_id =
                   PushRef(PushRef(@, participant_ids[1],
                                   ChatRef(id, participant_ids[2])),
                           participant_ids[2],
                           ChatRef(id, participant_ids[1]))],
          response |-> Response("ChatCreated")]

CreateChat(self, id, participant_ids) ==
    IF \/ id \in DOMAIN self.chats
       \/ chat_id(self, participant_ids[1], participant_ids[2]) # None
    THEN [self |-> self, response |-> Response("ChatAlreadyExists")]
    ELSE IF \/ ~Lists(self, participant_ids[1], participant_ids[2])
            \/ ~Lists(self, participant_ids[2], participant_ids[1])
    THEN [self |-> self, response |-> Response("ChatValidationError")]
    ELSE [self |->
            [self EXCEPT
               !.chats = Insert(@, id, [participant_ids |-> participant_ids,
                                        messages |-> <<>>]),
               !.chats_by_user_id =
                   PushRef(PushRef(@, participant_ids[1],
                                   ChatRef(id, participant_ids[2])),
                           participant_ids[2],
                           ChatRef(id, participant_ids[1]))],
          response |-> Response("ChatCreated")]

\* The AddMessage arm without the filter on the supplied chat id.
AddMessage_unfiltered(self, id, cid, source_user_id, destination_user_id, timestamp, message) ==
    LET found == chat_id(self, source_user_id, destination_user_id)
        chat == IF found # None /\ found[1] \in DOMAIN self.chats
                THEN found ELSE None
    IN IF chat = None
       THEN [self |-> self, response |-> Response("UnknownChat")]
       ELSE [self |->
               [self EXCEPT !.chats[chat[1]] =
                   StoredChat_insert(@, id, source_user_id,
                                     destination_user_id, timestamp,
                                     message)],
             response |-> Response("MessageAdded")]

AddMessage(self, id, cid, source_user_id, destination_user_id, timestamp, message) ==
    LET found == chat_id(self, source_user_id, destination_user_id)
        filtered == IF found # None /\ cid = found[1] THEN found ELSE None
        chat == IF filtered # None /\ filtered[1] \in DOMAIN self.chats
                THEN Some(filtered[1]) ELSE None
    IN IF chat = None
       THEN [self |-> self, response |-> Response("UnknownChat")]
       ELSE [self |->
               [self EXCEPT !.chats[chat[1]] =
                   StoredChat_insert(@, id, source_user_id,
                                     destination_user_id, timestamp,
                                     message)],
             response |-> Response("MessageAdded")]

RECURSIVE ListRefs(_, _, _)
ListRefs(self, rs, i) ==
    IF i > Len(rs) THEN <<>>
    ELSE (IF rs[i].id \in DOMAIN self.chats
          THEN <<[id |-> rs[i].id,
                  participant_ids |-> self.chats[rs[i].id].participant_ids]>>
          ELSE <<>>) \o ListRefs(self, rs, i + 1)

ListChats(self, user_id) ==
    [self |-> self,
     response |->
        IF user_id \in DOMAIN self.chats_by_user_id
        THEN ChatsListed(ListRefs(self, self.chats_by_user_id[user_id], 1))
        ELSE ChatsListed(<<>>)]

ListChat(self, id) ==
    [self |-> self,
     response |-> IF id \in DOMAIN self.chats
                  THEN ChatListed(self.chats[id].messages)
                  ELSE Response("UnknownChat")]

StoreContactList(self, id, list) ==
    [self |-> [self EXCEPT !.contact_lists = Insert(@, id, list)],
     response |-> Response("ContactListStored")]

\* ChatServer::issue
issue(self, command) ==
    IF command.kind = "CreateChat"
    THEN CreateChat(self, command.id, command.participant_ids)
    ELSE IF command.kind = "AddMessage"
    THEN AddMessage(self, command.id, command.chat_id,
                    command.source_user_id, command.destination_user_id,
                    command.timestamp, command.message)
    ELSE IF command.kind = "ListChats"
    THEN ListChats(self, command.user_id)
    ELSE IF command.kind = "ListChat"
    THEN ListChat(self, command.id)
    ELSE StoreContactList(self, command.id, command.list)

\* ---- ChatServer driven directly ----

Users == {1, 2}
ChatIds == {1, 2}
Timestamps == {1, 2}
ContactLists == {<<>>, <<1, 2>>}
MaxMessages == 3
MessageText == "hi"

\* The server of the model, as one ChatServer value.
server == [chats |-> chats, chats_by_user_id |-> chats_by_user_id,
           contact_lists |-> contact_lists]

RECURSIVE CountMessages(_, _)
CountMessages(cs, ids) ==
    IF ids = {} THEN 0
    ELSE LET c == CHOOSE c \in ids : TRUE
         IN Len(cs[c].messages) + CountMessages(cs, ids \ {c})

\* How many messages the server holds.
Stored == CountMessages(chats, DOMAIN chats)

NoRequest == [kind |-> "None"]

IdleChat ==
    /\ chats = ChatServer_new.chats
    /\ chats_by_user_id = ChatServer_new.chats_by_user_id
    /\ contact_lists = ChatServer_new.contact_lists
    /\ c_req = NoRequest
    /\ c_res = Response("None")

Issue(command) ==
    LET Done(r) ==
            /\ chats' = r.self.chats
            /\ chats_by_user_id' = r.self.chats_by_user_id
            /\ contact_lists' = r.self.contact_lists
            /\ c_req' = command
            /\ c_res' = r.response
    IN Done(issue(server, command))

IssueCreateChat ==
    \E id \in ChatIds, a \in Users, b \in Users :
       Issue([kind |-> "CreateChat", id |-> id, participant_ids |-> <<a, b>>])

\* Every message request carries its own id: the number of the message.
IssueAddMessage ==
    /\ Stored < MaxMessages
    /\ \E cid \in ChatIds, a \in Users, b \in Users, ts \in Timestamps :
          Issue([kind |-> "AddMessage", id |-> Stored + 1, chat_id |-> cid,
                 source_user_id |-> a, destination_user_id |-> b,
                 timestamp |-> ts, message |-> MessageText])

IssueListChats == \E u \in Users : Issue([kind |-> "ListChats", user_id |-> u])

IssueListChat == \E id \in ChatIds : Issue([kind |-> "ListChat", id |-> id])

IssueStoreContactList ==
    \E u \in Users, list \in ContactLists :
       Issue([kind |-> "StoreContactList", id |-> u, list |-> list])

-----------------------------------------------------------------------------
(* Specifications.                                                         *)

\* HttpServer under any sequence of calls.
Init == IdleServer /\ IdleParse /\ IdleAlloc /\ IdleUnparse /\ IdleChat

Next ==
    \/ \E t \in HttpTokens : Accepted(t) /\ UNCHANGED <<parseVars, allocVars, unparseVars, chatVars>>
    \/ \E t \in HttpTokens : Readable(t) /\ UNCHANGED <<parseVars, allocVars, unparseVars, chatVars>>
    \/ \E t \in HttpTokens : Writable(t) /\ UNCHANGED <<parseVars, allocVars, unparseVars, chatVars>>

Spec == Init /\ [][Next]_vars

\* The writable event that mio owes a connection whose last write ended
\* with WouldBlock, delivered once the peer takes all the remaining bytes.
FlushOwed(t) ==
    LET Done(c) == Called("writable", t, c, NoObs, c.obs) IN
    /\ t \in DOMAIN sock /\ sock[t].state = "open" /\ sock[t].blocked
    /\ Done(connection_writable(connections, t,
                                [take |-> "all", end |-> "WouldBlock"]))
    /\ UNCHANGED <<used_tokens, last_token, pc>>
    /\ UNCHANGED <<parseVars, allocVars, unparseVars, chatVars>>

\* HttpServer with peers that end up taking the bytes and with the
\* writable events that edge-triggered polling owes.
SpecLive == Init /\ [][Next]_vars /\ \A t \in HttpTokens : WF_vars(FlushOwed(t))

\* main's event loop.
NextMain ==
    \/ \E k \in 0..MaxConns, end \in {"WouldBlock", "Err", "RegisterErr"} :
          ServerEvent(k, end) /\ UNCHANGED <<parseVars, allocVars, unparseVars, chatVars>>
    \/ \E t \in AssignableTokens, readable \in BOOLEAN, writable \in BOOLEAN :
          TokenEvent(t, readable, writable)
          /\ UNCHANGED <<parseVars, allocVars, unparseVars, chatVars>>

SpecMain == Init /\ [][NextMain]_vars

\* HttpServer under events that are both readable and writable.
NextOrder ==
    \/ \E t \in HttpTokens : Accepted(t) /\ UNCHANGED <<parseVars, allocVars, unparseVars, chatVars>>
    \/ \E t \in HttpTokens : BothReady(t) /\ UNCHANGED <<parseVars, allocVars, unparseVars, chatVars>>

SpecOrder == Init /\ [][NextOrder]_vars

\* HttpRequest::parse on every prefix of every text.
InitParse ==
    /\ IdleServer /\ IdleAlloc /\ IdleUnparse /\ IdleChat
    /\ p_text \in Texts
    /\ p_len = 0
    /\ p_done = FALSE
    /\ p_res = NotCalled

NextParse ==
    \/ ParseReceive /\ UNCHANGED <<srvVars, allocVars, unparseVars, chatVars>>
    \/ \E done \in BOOLEAN :
          ParseCall(done) /\ UNCHANGED <<srvVars, allocVars, unparseVars, chatVars>>

SpecParse == InitParse /\ [][NextParse]_vars

\* calc_next_token on every used set and every last token main can hold.
InitAlloc ==
    /\ IdleServer /\ IdleParse /\ IdleUnparse /\ IdleChat
    /\ a_used \in SUBSET AssignableTokens
    /\ a_last \in {SERVER} \cup AssignableTokens
    /\ a_res = NotCalled

NextAlloc ==
    \/ AllocCall /\ UNCHANGED <<srvVars, parseVars, unparseVars, chatVars>>
    \/ AllocInsert /\ UNCHANGED <<srvVars, parseVars, unparseVars, chatVars>>
    \/ \E t \in AssignableTokens :
          AllocRelease(t) /\ UNCHANGED <<srvVars, parseVars, unparseVars, chatVars>>

SpecAlloc == InitAlloc /\ [][NextAlloc]_vars

\* HttpResponse::new and unparse on every response of the model.
NextUnparse ==
    \/ \E version \in Versions, status \in Statuses,
          headers \in HeaderLists, body \in Bodies :
          UnparseNew(version, status, headers, body)
          /\ UNCHANGED <<srvVars, parseVars, allocVars, chatVars>>
    \/ UnparseCall /\ UNCHANGED <<srvVars, parseVars, allocVars, chatVars>>

SpecUnparse == Init /\ [][NextUnparse]_vars

\* ChatServer under any sequence of requests.
NextChat ==
    \/ IssueCreateChat /\ UNCHANGED <<srvVars, parseVars, allocVars, unparseVars>>
    \/ IssueAddMessage /\ UNCHANGED <<srvVars, parseVars, allocVars, unparseVars>>
    \/ IssueListChats /\ UNCHANGED <<srvVars, parseVars, allocVars, unparseVars>>
    \/ IssueListChat /\ UNCHANGED <<srvVars, parseVars, allocVars, unparseVars>>
    \/ IssueStoreContactList /\ UNCHANGED <<srvVars, parseVars, allocVars, unparseVars>>

SpecChat == Init /\ [][NextChat]_vars

-----------------------------------------------------------------------------
(* Properties.                                                             *)

IsPrefix(p, s) == Len(p) <= Len(s) /\ TakeFirst(s, Len(p)) = p

EndsWith(s, suffix) ==
    Len(suffix) <= Len(s) /\ DropFirst(s, Len(s) - Len(suffix)) = suffix

\* An empty line has been reached: the text starts with CRLF or holds
\* CRLF CRLF.
HasEmptyLine(data) ==
    StartsWith(data, CRLF) \/ FindFrom(data, CRLF \o CRLF, 0) # -1

\* The header lines of a serialized response: the lines between its status
\* line and its first empty line.
HeaderLinesOf(out) ==
    Tail(SplitOn(TakeFirst(out, FindFrom(out, CRLF \o CRLF, 0)), CRLF))

\* Those of them that are Content-Length headers.
ContentLengthLines(out) ==
    SelectSeq(HeaderLinesOf(out),
              LAMBDA l : ToLowercase(TakeFirst(l, Len(ContentLengthColon)))
                            = ToLowercase(ContentLengthColon))

\* C1: when the reads of connection_readable end with WouldBlock and the
\* accumulated bytes are an incomplete request, the connection stays in
\* Reading, the handler is not invoked and nothing is written.
C1_IncompleteStaysReading ==
    (ev.op = "readable" /\ ev.r.acted /\ ev.r.read_end = "WouldBlock"
        /\ ev.r.nd = "Incomplete")
    => /\ ev.token \in DOMAIN connections
       /\ connections[ev.token].mode = "Reading"
       /\ ev.r.handled = 0
       /\ ev.r.wrote = <<>>

\* C2: no two open connections hold the same identifier: an accept gives
\* each new connection an identifier no open connection holds (the registry
\* grows by the number accepted and no open connection is replaced), every
\* open connection's identifier is in used_tokens, and an identifier leaves
\* used_tokens only when its connection is no longer in the registry.
C2_UniqueIdentifiers ==
    [][/\ ev'.op = "server" =>
            /\ Cardinality(DOMAIN connections')
                  = Cardinality(DOMAIN connections) + ev'.accepted
            /\ \A t \in DOMAIN connections :
                  t \in DOMAIN connections' /\ connections'[t] = connections[t]
            /\ ev'.accepted > 0 =>
                  last_token' \notin used_tokens
                  /\ last_token' \in AssignableTokens
       /\ DOMAIN connections' \subseteq used_tokens'
       /\ \A t \in used_tokens \ used_tokens' : t \notin DOMAIN connections'
      ]_vars

\* C2 witness: an accept reused an identifier below that of a connection
\* that is still open (the identifier space has wrapped).
C2_Witness ==
    /\ ev.op = "server" /\ ev.accepted > 0
    /\ Cardinality(DOMAIN connections) = 2
    /\ \E t \in DOMAIN connections : t > last_token
    /\ last_token \in DOMAIN connections

\* C3: parse on a strict prefix of a text, input open, returns Incomplete
\* or what it returns on the whole text.
C3_PrefixMonotone ==
    (p_res.kind # "NotCalled" /\ ~p_done /\ p_len < Len(p_text))
    => (p_res = Incomplete \/ p_res = parse(p_text, FALSE))

\* C4: parse on a buffer in which no empty line has been reached, input
\* open, returns Incomplete.
C4_UnterminatedIsIncomplete ==
    (p_res.kind # "NotCalled" /\ ~p_done /\ ~HasEmptyLine(Received))
    => p_res = Incomplete

\* C5: a connection in Writing whose buffer is fully flushed is removed
\* from the registry, and a later connection_readable or
\* connection_writable for an identifier that is not in the registry
\* changes nothing, writes nothing and does not invoke the handler.
C5_OneResponse ==
    [][/\ \A t \in DOMAIN connections' :
             connections'[t].mode = "Writing"
             => connections'[t].buffer_idx < Len(connections'[t].buffer)
       /\ (ev'.r.how = "Flushed" \/ ev'.w.how = "Flushed")
             => ~is_connection_active(connections', ev'.token)
       /\ (ev'.op \in {"readable", "writable"}
           /\ ~is_connection_active(connections, ev'.token))
             => /\ connections' = connections
                /\ sock' = sock
                /\ ev'.r.wrote = <<>> /\ ev'.w.wrote = <<>>
                /\ ev'.r.handled = 0 /\ ev'.w.handled = 0
      ]_vars

\* C5 witness: a call for the identifier of a connection that was removed
\* after its response was fully flushed.
C5_Witness ==
    /\ ev.op \in {"readable", "writable"}
    /\ ev.token \in DOMAIN sock
    /\ sock[ev.token].state = "flushed"
    /\ ~ev.r.acted /\ ~ev.w.acted

\* C6: calc_next_token returns None only when every assignable identifier
\* is used, and a free identifier whenever one is free.
C6_ExhaustedOnlyWhenFull ==
    a_res.kind # "NotCalled"
    => /\ a_res.kind = "None" => AssignableTokens \subseteq a_used
       /\ AssignableTokens \ a_used # {}
             => a_res.kind = "Some"
                /\ a_res.token \in AssignableTokens \ a_used

\* C7: from last = usize::MAX - 2 the allocation returns 1 when 1 is free.
C7_WrapsToOne ==
    (a_res.kind # "NotCalled" /\ a_last = USIZE_MAX - 2 /\ 1 \notin a_used)
    => (a_res.kind = "Some" /\ a_res.token = 1)

C9_OneContentLength ==
    u_out # <<>>
    => /\ ContentLengthLines(u_out)
            = <<ContentLengthColon \o to_string(Len(u_resp.body.text))>>
       /\ EndsWith(u_out, ConnectionClose \o CRLF \o CRLF \o u_resp.body.text)

\* C10: when the reads end without error and the accumulated bytes cannot
\* be turned into a request, all that is written is the serialized 400
\* response.
C10_OnlyBadRequestWritten ==
    (ev.op = "readable" /\ ev.r.acted
        /\ ev.r.read_end \in {"WouldBlock", "Zero"}
        /\ ev.r.parsed \in {"Malformed", "NotUtf8"})
    => /\ IsPrefix(ev.r.wrote, unparse(BadRequest))
       /\ is_connection_active(connections, ev.token)
             => connections[ev.token].buffer = unparse(BadRequest)

\* What a request text says, read off the text itself.
\* The offset of the first empty line's CRLF CRLF, or -1.
BlankLineAt(data) == FindFrom(data, CRLF \o CRLF, 0)

\* The request line and the header lines: the lines before the empty line.
HeadLinesOf(data) == SplitOn(TakeFirst(data, BlankLineAt(data)), CRLF)

\* The bytes that follow the empty line.
BodyOf(data) == DropFirst(data, BlankLineAt(data) + 4)

\* The request line's resolution.
ResolvedLine(data) == RequestLine(HeadLinesOf(data)[1])

IsResolved(data) ==
    /\ ResolvedLine(data).method # None
    /\ ResolvedLine(data).path # None
    /\ ResolvedLine(data).version # None

\* The header lines that hold a colon, as (name, value) pairs.
HeadersOf(data) ==
    LET WithColon == SelectSeq(Tail(HeadLinesOf(data)),
                               LAMBDA l : FindFrom(l, <<":">>, 0) # -1)
    IN [i \in 1..Len(WithColon) |->
          <<TakeFirst(WithColon[i], FindFrom(WithColon[i], <<":">>, 0)),
            TrimStart(DropFirst(WithColon[i],
                                FindFrom(WithColon[i], <<":">>, 0) + 1))>>]

\* The Content-Length values that are numbers, in order.
LengthsOf(data) ==
    SelectSeq(HeadersOf(data),
              LAMBDA h : ToLowercase(h[1]) = ContentLengthLower
                         /\ ParseUsize(h[2]) # <<>>)

\* The captured Content-Length: the last of them.
CapturedLength(data) ==
    IF LengthsOf(data) = <<>> THEN None
    ELSE ParseUsize(LengthsOf(data)[Len(LengthsOf(data))][2])

\* C11: for a POST whose request line resolved and whose headers are
\* terminated, parse with the input open returns Complete, with the bytes
\* after the empty line as body, when their number equals the captured
\* Content-Length, and Incomplete otherwise; with the input closed it
\* returns Complete with whatever follows the empty line as body.
C11_PostCompletion ==
    (p_res.kind # "NotCalled" /\ BlankLineAt(Received) # -1
        /\ IsResolved(Received)
        /\ ResolvedLine(Received).method = Some("POST"))
    => IF p_done \/ (CapturedLength(Received) # None
                     /\ Len(BodyOf(Received)) = CapturedLength(Received)[1])
       THEN /\ p_res.kind = "Complete"
            /\ p_res.req.method = "POST"
            /\ p_res.req.body = Some(BodyOf(Received))
       ELSE p_res = Incomplete

\* C11 witness: with the input open, a POST completed by a body of the
\* length that a lower-case content-length header announced.
C11_Witness ==
    /\ p_res.kind = "Complete" /\ ~p_done
    /\ p_res.req.method = "POST"
    /\ p_res.req.body = Some(<<"a", "b">>)
    /\ p_text = TextPostLonger

\* C12: for a GET whose request line resolved and whose headers are
\* terminated by an empty line, parse returns Complete without a body,
\* whether the input is closed or not and whatever follows the empty line,
\* with the path, the version and the headers of the text before the empty
\* line.
C12_GetIgnoresBody ==
    (p_res.kind # "NotCalled" /\ BlankLineAt(Received) # -1
        /\ IsResolved(Received)
        /\ ResolvedLine(Received).method = Some("GET"))
    => p_res = Complete([body |-> None,
                         headers |-> HeadersOf(Received),
                         method |-> "GET",
                         path |-> ResolvedLine(Received).path[1],
                         version |-> ResolvedLine(Received).version[1]])

\* C12 witness: a GET parsed with the input closed and bytes after the
\* empty line, its header list not empty.
C12_Witness ==
    /\ p_res.kind = "Complete" /\ p_done
    /\ p_res.req.method = "GET"
    /\ p_res.req.headers # <<>>
    /\ BlankLineAt(Received) # -1
    /\ BodyOf(Received) # <<>>

\* C13: parse on a buffer in which no empty line has been reached, input
\* closed, returns Malformed; and with the input closed parse never returns
\* Incomplete.
C13_MalformedOnClose ==
    (p_res.kind # "NotCalled" /\ p_done)
    => /\ p_res # Incomplete
       /\ ~HasEmptyLine(Received) => p_res = Malformed

\* The request line's tokens do not give a method, a path and a version:
\* the first is neither GET nor POST, or there are fewer than three.
LineUnresolved(data) ==
    LET tokens == SplitAny(HeadLinesOf(data)[1], {" ", "\t"}) IN
    tokens[1] \notin {GET, POST} \/ Len(tokens) < 3

\* C14: when the header section is terminated and the request line did not
\* resolve, parse returns Malformed whether the input is closed or not, and
\* the connection answers with the 400 response without invoking the
\* handler.
C14_UnresolvedIsMalformed ==
    (ev.op = "readable" /\ ev.r.acted /\ ev.r.read_end # "Err"
        /\ IsUtf8(ev.r.input) /\ BlankLineAt(ev.r.input) # -1
        /\ LineUnresolved(ev.r.input))
    => /\ parse(ev.r.input, FALSE) = Malformed
       /\ parse(ev.r.input, TRUE) = Malformed
       /\ ev.r.parsed = "Malformed"
       /\ ev.r.handled = 0
       /\ ev.r.resp = unparse(BadRequest)

\* C14 witness: a PUT request, whole, has been read and answered.
C14_Witness ==
    /\ ev.op = "readable" /\ ev.r.acted
    /\ ev.r.input = SrvPut
    /\ ev.r.parsed = "Malformed"
    /\ ev.r.wrote = unparse(BadRequest)

\* C15: one connection_readable call on a Reading connection reads until
\* the socket's reads end: all the bytes the socket handed over are then in
\* the buffer, after those accumulated before and in arrival order, the
\* buffer having grown by CHUNK_SIZE each time it was full.
C15_EdgeTriggeredDrain ==
    [][(ev'.op = "readable" /\ ev'.r.acted)
       => /\ ev'.r.input =
                TakeFirst(connections[ev'.token].buffer,
                          connections[ev'.token].buffer_idx) \o ev'.r.data
          /\ ev'.r.cap = CHUNK_SIZE * ((Len(ev'.r.input) \div CHUNK_SIZE) + 1)
      ]_vars

\* C15 witness: a call whose reads filled the buffer more than twice before
\* the socket reported WouldBlock.
C15_Witness ==
    /\ ev.op = "readable" /\ ev.r.acted
    /\ ev.r.read_end = "WouldBlock"
    /\ Len(ev.r.data) > 2 * CHUNK_SIZE
    /\ ev.r.input = ev.r.data
    /\ ev.r.cap > 3 * CHUNK_SIZE

\* C16: every connection that enters Writing is eventually removed from
\* the registry, given the writable event owed after each WouldBlock and a
\* peer that ends up taking the bytes; and a response is serialized for a
\* connection only when none was before and nothing has been written to it.
C16_ClosedAfterOneResponse ==
    /\ \A t \in HttpTokens :
          (is_connection_active(connections, t)
              /\ connections[t].mode = "Writing")
          ~> ~is_connection_active(connections, t)
    /\ [][(ev'.r.resp # <<>> \/ ev'.w.resp # <<>>)
          => /\ ev'.token \in DOMAIN sock
             /\ sock[ev'.token].state = "open"
             /\ sock[ev'.token].resp = <<>>
             /\ sock[ev'.token].sent = <<>>
             /\ sock[ev'.token].handled = 0
         ]_vars

\* C16 witness: a writable event has flushed the rest of a response whose
\* first bytes were written by the call that read the request, and the
\* connection is gone.
C16_Witness ==
    /\ ev.op = "writable" /\ ev.w.acted
    /\ ev.w.how = "Flushed" /\ ev.w.wrote # <<>>
    /\ ev.token \in DOMAIN sock /\ sock[ev.token].state = "flushed"
    /\ Len(ev.sent) > Len(ev.w.wrote)
    /\ ~is_connection_active(connections, ev.token)

\* C17: when a read of connection_readable fails with an error other than
\* WouldBlock, the call removes the connection, does not invoke the handler
\* and writes nothing.
C17_ReadErrorDrops ==
    (ev.op = "readable" /\ ev.r.acted /\ ev.r.read_end = "Err")
    => /\ ~is_connection_active(connections, ev.token)
       /\ ev.r.removed
       /\ ev.r.handled = 0
       /\ ev.r.resp = <<>>
       /\ ev.r.wrote = <<>> /\ ev.r.how = "None"
       /\ ev.sent = <<>>

\* C17 witness: the read failed after a whole request had arrived.
C17_Witness ==
    /\ ev.op = "readable" /\ ev.r.acted /\ ev.r.read_end = "Err"
    /\ ev.r.input = SrvGet
    /\ ev.token \in DOMAIN sock /\ sock[ev.token].state = "dropped"

\* C18: the handling of an event for an identifier, whatever the outcome
\* of its connection_readable and connection_writable calls, leaves the
\* registry entry of every other identifier as it was (present or absent,
\* buffer, cursor and mode) and removes no other identifier from
\* used_tokens.
C18_FailureIsolation ==
    [][ev'.op = "token"
       => \A u \in AssignableTokens \ {ev'.token} :
             /\ is_connection_active(connections', u)
                   = is_connection_active(connections, u)
             /\ is_connection_active(connections, u)
                   => connections'[u] = connections[u]
             /\ u \in used_tokens => u \in used_tokens'
      ]_vars

\* C18 witness: an event whose read failed removed its connection while
\* another connection, with a response not yet flushed, stays registered.
C18_Witness ==
    /\ ev.op = "token" /\ ev.r.acted /\ ev.r.read_end = "Err"
    /\ ~is_connection_active(connections, ev.token)
    /\ \E u \in DOMAIN connections :
          u # ev.token /\ connections[u].mode = "Writing" /\ u \in used_tokens

\* The version the request line of a text carries: its third token.
VersionOf(data) == SplitAny(HeadLinesOf(data)[1], {" ", "\t"})[3]

\* C19: the response serialized for a request whose request line carries a
\* version starts with that version, for the handler's responses and for
\* the 400 response.
C19_VersionEchoed ==
    (ev.op = "readable" /\ ev.r.acted /\ ev.r.resp # <<>>
        /\ IsUtf8(ev.r.input) /\ BlankLineAt(ev.r.input) # -1
        /\ Len(SplitAny(HeadLinesOf(ev.r.input)[1], {" ", "\t"})) >= 3)
    => StartsWith(ev.r.resp, VersionOf(ev.r.input) \o <<" ">>)

\* C20: calc_next_token never returns identifier 0: in every sequence of
\* allocations and releases every identifier it returns lies in
\* 1..usize::MAX - 2, and so does the last identifier issued, so that
\* last + 1 does not overflow.
C20_ZeroReserved ==
    /\ a_last \in {SERVER} \cup AssignableTokens
    /\ a_last + 1 <= USIZE_MAX
    /\ a_used \subseteq AssignableTokens
    /\ a_res.kind = "Some"
          => a_res.token # SERVER /\ a_res.token \in AssignableTokens

\* C20 witness: an allocation from usize::MAX - 2 that probed past used
\* identifiers after the wrap.
C20_Witness ==
    /\ a_res.kind = "Some"
    /\ a_last = USIZE_MAX - 2
    /\ a_res.probes > 1
    /\ a_res.token < a_last

\* ---- ChatServer ----

\* C21: the messages a ListChat request returns are in non-decreasing
\* timestamp order, and messages of the same timestamp are in the order
\* they were added (the id of a message is its number of arrival).
C21_ListedInOrder ==
    (c_req.kind = "ListChat" /\ c_res.kind = "ChatListed") =>
        \A i, j \in 1..Len(c_res.messages) :
            i < j =>
                \/ c_res.messages[i].timestamp < c_res.messages[j].timestamp
                \/ /\ c_res.messages[i].timestamp = c_res.messages[j].timestamp
                   /\ c_res.messages[i].id < c_res.messages[j].id

\* A listing of three messages that were added out of order, two of them
\* with the same timestamp.
C21_Witness ==
    /\ c_req.kind = "ListChat" /\ c_res.kind = "ChatListed"
    /\ Len(c_res.messages) = MaxMessages
    /\ \E i, j \in 1..Len(c_res.messages) :
          i < j /\ c_res.messages[i].id > c_res.messages[j].id
    /\ \E i, j \in 1..Len(c_res.messages) :
          i < j /\ c_res.messages[i].timestamp = c_res.messages[j].timestamp

\* The stored contact list of user a names user b.
HasContact(a, b) ==
    a \in DOMAIN contact_lists
    /\ \E i \in 1..Len(contact_lists[a]) : contact_lists[a][i] = b

\* Each of the two participants has the other in their contact list.
SymmetricContacts(p) == HasContact(p[1], p[2]) /\ HasContact(p[2], p[1])

\* The users of a stored chat.
ParticipantsOf(c) ==
    {chats[c].participant_ids[1], chats[c].participant_ids[2]}

\* A chat of this id, or a chat between these two users, is stored.
ChatExists(id, p) ==
    id \in DOMAIN chats
    \/ \E c \in DOMAIN chats : ParticipantsOf(c) = {p[1], p[2]}

\* C22: a CreateChat request is answered ChatCreated only if each of the
\* two participants has the other in their stored contact list; when that
\* does not hold and the chat does not exist already, the answer is
\* ChatValidationError and chats, the per-user index and the contact lists
\* are left as they were.
C22_CreateChatValidated ==
    [][c_req'.kind = "CreateChat" =>
          /\ c_res'.kind = "ChatCreated" =>
                SymmetricContacts(c_req'.participant_ids)
          /\ (/\ ~SymmetricContacts(c_req'.participant_ids)
              /\ ~ChatExists(c_req'.id, c_req'.participant_ids)) =>
                /\ c_res'.kind = "ChatValidationError"
                /\ UNCHANGED <<chats, chats_by_user_id, contact_lists>>]_vars

\* A CreateChat request refused because only the first participant lists
\* the other, on a server that already stores another chat.
C22_Witness ==
    /\ c_req.kind = "CreateChat"
    /\ c_res.kind = "ChatValidationError"
    /\ HasContact(c_req.participant_ids[1], c_req.participant_ids[2])
    /\ ~HasContact(c_req.participant_ids[2], c_req.participant_ids[1])
    /\ ~ChatExists(c_req.id, c_req.participant_ids)
    /\ chats # <<>>

\* The messages of a list other than the one of this id.
Without(messages, id) == SelectSeq(messages, LAMBDA m : m.id # id)

\* The chat the request names is stored and is the chat between the
\* request's source and destination users.
NamesTheirChat(r) ==
    /\ r.chat_id \in DOMAIN chats
    /\ ParticipantsOf(r.chat_id) = {r.source_user_id, r.destination_user_id}

\* C23: an AddMessage request is answered MessageAdded, with exactly one
\* new message (the request's) stored in the chat it names and nothing
\* else changed, when that chat is the chat between the request's source
\* and destination; otherwise it is answered UnknownChat and no chat's
\* message list changes.
C23_AddMessageChecked ==
    [][c_req'.kind = "AddMessage" =>
          IF NamesTheirChat(c_req')
          THEN /\ c_res'.kind = "MessageAdded"
               /\ DOMAIN chats' = DOMAIN chats
               /\ \A c \in DOMAIN chats \ {c_req'.chat_id} :
                     chats'[c] = chats[c]
               /\ Len(chats'[c_req'.chat_id].messages)
                     = Len(chats[c_req'.chat_id].messages) + 1
               /\ Without(chats'[c_req'.chat_id].messages, c_req'.id)
                     = chats[c_req'.chat_id].messages
               /\ \E i \in 1..Len(chats'[c_req'.chat_id].messages) :
                     chats'[c_req'.chat_id].messages[i] =
                        [id |-> c_req'.id,
                         timestamp |-> c_req'.timestamp,
                         message |-> c_req'.message,
                         source_user_id |-> c_req'.source_user_id,
                         destination_user_id |-> c_req'.destination_user_id]
          ELSE /\ c_res'.kind = "UnknownChat"
               /\ chats' = chats]_vars

\* An AddMessage request refused although the named chat is stored and a
\* chat between its two users is stored: they are not the same chat.
C23_Witness ==
    /\ c_req.kind = "AddMessage"
    /\ c_res.kind = "UnknownChat"
    /\ c_req.chat_id \in DOMAIN chats
    /\ \E c \in DOMAIN chats \ {c_req.chat_id} :
          ParticipantsOf(c) = {c_req.source_user_id, c_req.destination_user_id}
    /\ Stored > 0

\* ---- HttpServer: the life of a connection ----

\* C24: a connection's mode only moves forward.  A newly accepted
\* connection is in Reading with an empty buffer and its cursor at 0; a
\* connection in Writing is in Writing or removed after any operation;
\* connection_readable changes nothing of a connection in Writing and
\* connection_writable nothing of a connection in Reading (nor does the
\* socket take a byte).
C24_ModeMovesForward ==
    [][\A t \in HttpTokens :
          /\ (t \notin DOMAIN connections /\ t \in DOMAIN connections') =>
                connections'[t] =
                   [buffer |-> <<>>, buffer_idx |-> 0, mode |-> "Reading"]
          /\ t \in DOMAIN connections' =>
                connections'[t].mode \in {"Reading", "Writing"}
          /\ (/\ t \in DOMAIN connections
              /\ connections[t].mode = "Writing"
              /\ t \in DOMAIN connections') =>
                connections'[t].mode = "Writing"
          /\ (/\ t \in DOMAIN connections
              /\ ev'.token = t
              /\ \/ ev'.op = "readable" /\ connections[t].mode = "Writing"
                 \/ ev'.op = "writable" /\ connections[t].mode = "Reading") =>
                /\ connections' = connections
                /\ sock' = sock]_vars

\* connection_readable was called for a connection that is part way
\* through writing its response, and did nothing.
C24_Witness ==
    /\ ev.op = "readable"
    /\ ~ev.r.acted
    /\ ev.token \in DOMAIN connections
    /\ connections[ev.token].mode = "Writing"
    /\ connections[ev.token].buffer_idx > 0

\* The bytes of a connection's buffer from its cursor on.
Unsent(cx) == DropFirst(cx.buffer, cx.buffer_idx)

\* C25: connection_writable on a connection in Writing ends in exactly one
\* of four ways.  All the unsent bytes were taken: the connection is
\* removed.  A write would block: the connection stays, in Writing, its
\* buffer as it was and its cursor on the first byte not taken.  A write
\* took zero bytes, or failed otherwise: the connection is removed, bytes
\* left unsent.
C25_WritableOutcomes ==
    [][\A t \in HttpTokens :
          (/\ ev'.op = "writable" /\ ev'.token = t
           /\ t \in DOMAIN connections
           /\ connections[t].mode = "Writing") =>
             /\ ev'.w.acted
             /\ ev'.w.how \in {"Flushed", "WouldBlock", "Zero", "Err"}
             /\ IsPrefix(ev'.w.wrote, Unsent(connections[t]))
             /\ ev'.w.how = "Flushed" =>
                   /\ ev'.w.wrote = Unsent(connections[t])
                   /\ t \notin DOMAIN connections'
             /\ ev'.w.how = "WouldBlock" =>
                   /\ t \in DOMAIN connections'
                   /\ connections'[t] =
                         [connections[t] EXCEPT
                             !.buffer_idx = @ + Len(ev'.w.wrote)]
                   /\ connections'[t].buffer_idx
                         < Len(connections'[t].buffer)
             /\ ev'.w.how \in {"Zero", "Err"} =>
                   /\ t \notin DOMAIN connections'
                   /\ Len(ev'.w.wrote) < Len(Unsent(connections[t]))]_vars

\* A writable event whose writes took some bytes before one would block,
\* on a connection that had already sent a part of its response.
C25_Witness ==
    /\ ev.op = "writable"
    /\ ev.w.how = "WouldBlock"
    /\ ev.w.wrote # <<>>
    /\ ev.token \in DOMAIN connections
    /\ connections[ev.token].buffer_idx > Len(ev.w.wrote)

\* ---- main: used_tokens and the registry ----

\* C26: while main runs, after every event it has handled used_tokens is
\* the set of the identifiers in the registry.  A server event adds as many
\* identifiers as it accepted connections and removes none; the event of a
\* connection adds none and removes at most its own identifier.
C26_UsedTokensAreRegistry ==
    [][pc' = "running" =>
          /\ used_tokens' = DOMAIN connections'
          /\ ev'.op = "server" =>
                /\ used_tokens \subseteq used_tokens'
                /\ Cardinality(used_tokens' \ used_tokens) = ev'.accepted
          /\ ev'.op = "token" =>
                /\ used_tokens' \subseteq used_tokens
                /\ used_tokens \ used_tokens' \subseteq {ev'.token}]_vars

\* The event of a connection removed it and released its identifier while
\* another connection stays registered.
C26_Witness ==
    /\ pc = "running"
    /\ ev.op = "token"
    /\ ev.r.removed \/ ev.w.removed
    /\ ev.token \notin used_tokens
    /\ used_tokens # {}
    /\ used_tokens = DOMAIN connections

\* C27: the handler is invoked at most once in the life of a connection,
\* and only with a request the parser reported Complete; once a response
\* has been serialized for a connection, a readable event neither reads
\* nor parses for it.
C27_HandlerAtMostOnce ==
    [][\A t \in HttpTokens :
          (ev'.token = t /\ ev'.op \in {"readable", "writable"}) =>
             /\ ev'.w.handled = 0
             /\ ev'.r.handled \in {0, 1}
             /\ ev'.r.handled = 1 =>
                   /\ t \in DOMAIN sock /\ sock[t].handled = 0
                   /\ ev'.r.parsed = "Complete"
                   /\ \E done \in BOOLEAN :
                         parse(ev'.r.input, done).kind = "Complete"
             /\ (/\ t \in DOMAIN connections
                 /\ sock[t].resp # <<>>) =>
                   /\ ~ev'.r.acted
                   /\ ev'.r.parsed = "None"
                   /\ ev'.r.handled = 0]_vars

\* A readable event for a connection whose request was handled and whose
\* response is serialized but not yet sent in full: nothing was read.
C27_Witness ==
    /\ ev.op = "readable"
    /\ ~ev.r.acted
    /\ ev.token \in DOMAIN connections
    /\ sock[ev.token].handled = 1
    /\ sock[ev.token].resp # <<>>

\* The serialized response of the handler to the request the parser
\* completes from this input.
IsHandlerResponse(input, resp) ==
    \E out \in HandlerOutputs, done \in BOOLEAN :
       LET Answers(p) ==
               p.kind = "Complete" /\ resp = unparse(handler(p.req, out))
       IN Answers(parse(input, done))

\* What every call of connection_readable in which the parser reports
\* Complete does: the handler's response is serialized, a write attempt is
\* made in the call and the socket takes the response from its first byte.
CompleteIsWritten(r) ==
    /\ r.handled = 1
    /\ IsHandlerResponse(r.input, r.resp)
    /\ r.how # "None"
    /\ IsPrefix(r.wrote, r.resp)

\* The connection of t stays, in Writing, with the response as its buffer
\* and its cursor on the first byte the socket has not taken.
StaysWriting(t, r) ==
    /\ t \in DOMAIN connections'
    /\ connections'[t] = [buffer |-> r.resp, buffer_idx |-> Len(r.wrote),
                          mode |-> "Writing"]
    /\ Len(r.wrote) < Len(r.resp)

\* C28 as stated: when the parser reports Complete inside
\* connection_readable the response is serialized from cursor 0, the mode
\* becomes Writing and a write attempt is made in the same call; the
\* connection is removed if the socket took the whole response and
\* otherwise stays in Writing with its cursor on the first unsent byte.
C28_WrittenOrStays ==
    [][\A t \in HttpTokens :
          (ev'.op = "readable" /\ ev'.token = t
           /\ ev'.r.parsed = "Complete") =>
             /\ CompleteIsWritten(ev'.r)
             /\ IF ev'.r.wrote = ev'.r.resp
                THEN t \notin DOMAIN connections'
                ELSE StaysWriting(t, ev'.r)]_vars

\* C28 amended: ... the connection is removed if the socket took the whole
\* response, or if a write took zero bytes or failed with an error other
\* than would-block; it stays in Writing with its cursor on the first
\* unsent byte exactly when a write would block.
C28_WrittenStaysOrDropped ==
    [][\A t \in HttpTokens :
          (ev'.op = "readable" /\ ev'.token = t
           /\ ev'.r.parsed = "Complete") =>
             /\ CompleteIsWritten(ev'.r)
             /\ ev'.r.how = "Flushed" <=> ev'.r.wrote = ev'.r.resp
             /\ IF ev'.r.how = "WouldBlock"
                THEN StaysWriting(t, ev'.r)
                ELSE t \notin DOMAIN connections']_vars

\* The parser reported Complete, the socket took a part of the response
\* and then would block: the connection stays with its cursor after that
\* part.
C28_Witness ==
    /\ ev.op = "readable"
    /\ ev.r.parsed = "Complete"
    /\ ev.r.how = "WouldBlock"
    /\ ev.r.wrote # <<>>
    /\ ev.token \in DOMAIN connections
    /\ connections[ev.token].buffer_idx = Len(ev.r.wrote)

\* The serialized response in the buffer of t after the event: the one
\* this event's call serialized, or else the one serialized before.
ResponseOf(t) == IF ev'.r.resp # <<>> THEN ev'.r.resp ELSE sock[t].resp

\* After an event of connection t, all the bytes its socket has taken are
\* the first bytes of the serialized response, the cursor of the
\* connection counts them, and they are the whole response when the
\* connection was removed on a full flush.
SentIsPrefix(t) ==
    /\ IsPrefix(ev'.sent, ResponseOf(t))
    /\ (t \in DOMAIN connections' /\ connections'[t].mode = "Writing") =>
          connections'[t].buffer_idx = Len(ev'.sent)
    /\ (ev'.r.how = "Flushed" \/ ev'.w.how = "Flushed") =>
          ev'.sent = ResponseOf(t)

\* C29: over any sequence of events of a connection, with partial writes
\* and would-blocks, the bytes its socket has taken are in order the first
\* bytes of the serialized response placed in its buffer, each write
\* starting right after the last byte taken, and they are exactly the
\* response when the connection is removed after a full flush.
C29_SentIsResponsePrefix ==
    [][\A t \in HttpTokens :
          (ev'.token = t /\ ev'.op \in {"readable", "writable"}
           /\ t \in DOMAIN connections) => SentIsPrefix(t)]_vars

\* The same for the connections in whose buffer a response was serialized.
SerializedIsSentInOrder ==
    [][\A t \in HttpTokens :
          (ev'.token = t /\ ev'.op \in {"readable", "writable"}
           /\ t \in DOMAIN connections
           /\ ResponseOf(t) # <<>>) => SentIsPrefix(t)]_vars

\* The cursors a call has left are within the buffers they belong to: the
\* cursor perform_reads returned with, and the one perform_writes did.
CursorsOf(o) ==
    /\ 0 <= o.rd_idx /\ o.rd_idx <= o.cap
    /\ 0 <= o.wr_idx /\ o.wr_idx <= o.wr_len

\* C30: the cursor of every registered connection, in Reading and in
\* Writing, satisfies 0 <= buffer_idx <= buffer.len(), and so do the
\* cursors with which the reads and the writes of each call returned.
C30_CursorInRange ==
    /\ \A t \in DOMAIN connections :
          /\ 0 <= connections[t].buffer_idx
          /\ connections[t].buffer_idx <= Len(connections[t].buffer)
    /\ CursorsOf(ev.r)
    /\ CursorsOf(ev.w)

\* A call whose reads returned after growing the buffer, leaving a whole
\* chunk unused behind the cursor, and whose writes left the connection
\* registered with its cursor inside the response.
C30_Witness ==
    /\ ev.op = "readable" /\ ev.r.acted
    /\ ev.r.rd_idx > 0
    /\ ev.r.cap - ev.r.rd_idx = CHUNK_SIZE
    /\ ev.token \in DOMAIN connections
    /\ connections[ev.token].buffer_idx > 0
    /\ connections[ev.token].buffer_idx < Len(connections[ev.token].buffer)
    /\ ev.r.wr_idx = connections[ev.token].buffer_idx

\* ---- calc_next_token: probing upward ----

\* The free identifiers above a_last, up to usize::MAX - 2.
FreeAbove == {t \in AssignableTokens : t > a_last /\ t \notin a_used}

\* C31: when an identifier greater than last and at most usize::MAX - 2 is
\* not in the used set, calc_next_token returns the smallest such
\* identifier; the call leaves the used set as it was.
C31_SmallestFreeAbove ==
    [][(a_res.kind = "NotCalled" /\ a_res'.kind # "NotCalled") =>
          /\ a_used' = a_used
          /\ FreeAbove # {} =>
                /\ a_res'.kind = "Some"
                /\ a_res'.token \in FreeAbove
                /\ \A t \in FreeAbove : a_res'.token <= t]_vars

\* A call that skipped a used identifier above last while an identifier
\* below last was free.
C31_Witness ==
    /\ a_res.kind = "Some"
    /\ a_res.token > a_last + 1
    /\ a_res.token \in FreeAbove
    /\ \E t \in AssignableTokens : t < a_last /\ t \notin a_used

\* ---- The request line ----

\* The tokens of a line: its pieces between runs of spaces and tabs.
TokensOf(line) ==
    SelectSeq(SplitAny(line, {" ", "\t"}), LAMBDA piece : piece # <<>>)

\* The request line of what was received.
ReceivedLine == SplitOn(Received, CRLF)[1]

\* C32: for a request line of three tokens separated by one or more spaces
\* or tabs, the request the parser completes has the second token as its
\* path and the third as its version, the first being its method.
C32_TokensResolved ==
    (p_res.kind = "Complete" /\ Len(TokensOf(ReceivedLine)) = 3) =>
        /\ TokensOf(ReceivedLine)[1] = IF p_res.req.method = "GET" THEN GET
                                       ELSE POST
        /\ p_res.req.path = TokensOf(ReceivedLine)[2]
        /\ p_res.req.version = TokensOf(ReceivedLine)[3]

\* ---- The order of the two calls of an event ----

\* C33: for an event that is readable and writable, connection_readable
\* then connection_writable leave the same registry, the same bytes sent
\* and the same number of handler invocations as connection_writable then
\* connection_readable.
C33_OrderIrrelevant ==
    ev.op = "both" =>
        /\ ev.alt.conns = connections
        /\ ev.alt.sent = ev.r.wrote \o ev.w.wrote
        /\ ev.alt.handled = ev.r.handled + ev.w.handled

\* An event in which connection_readable invoked the handler and wrote a
\* part of the response before the socket would block, and
\* connection_writable then acted on the connection, which stays.
C33_Witness ==
    /\ ev.op = "both"
    /\ ev.r.handled = 1
    /\ ev.r.wrote # <<>>
    /\ ev.r.how = "WouldBlock"
    /\ ev.w.acted
    /\ ev.token \in DOMAIN connections
    /\ ev.alt.handled = 1

\* ---- ChatServer: one chat per pair ----

\* C34: no two stored chats are between the same unordered pair of users;
\* a CreateChat request whose id is stored, or whose two participants in
\* either order already share a chat, is answered ChatAlreadyExists,
\* whatever the contact lists say, and leaves the server as it was.
C34_OneChatPerPair ==
    [][/\ \A c, d \in DOMAIN chats' :
             ({chats'[c].participant_ids[1], chats'[c].participant_ids[2]}
                = {chats'[d].participant_ids[1], chats'[d].participant_ids[2]})
             => c = d
       /\ (/\ c_req'.kind = "CreateChat"
           /\ ChatExists(c_req'.id, c_req'.participant_ids)) =>
             /\ c_res'.kind = "ChatAlreadyExists"
             /\ UNCHANGED <<chats, chats_by_user_id, contact_lists>>]_vars

\* A CreateChat request with a fresh id, refused because its participants,
\* named in the other order, already share a chat, at a time when their
\* contact lists would not allow a chat.
C34_Witness ==
    /\ c_req.kind = "CreateChat"
    /\ c_res.kind = "ChatAlreadyExists"
    /\ c_req.id \notin DOMAIN chats
    /\ \E c \in DOMAIN chats :
          chats[c].participant_ids =
             <<c_req.participant_ids[2], c_req.participant_ids[1]>>
          /\ c_req.participant_ids[1] # c_req.participant_ids[2]
    /\ ~SymmetricContacts(c_req.participant_ids)

\* ---- ChatServer: the chats of a user ----

\* The stored chats in which user u is a participant.
ChatsOf(u) == {c \in DOMAIN chats : u \in ParticipantsOf(c)}

\* C35: a ListChats request for a user returns the chats in which that
\* user is a participant and no other, each of them once, a chat of the
\* user with themself included, each with its participants; the list is
\* empty for a user with no chats.  (The order of the list is left out:
\* the formula is what the claim says of the list's members.)
C35_EachChatOnce ==
    (c_req.kind = "ListChats" /\ c_res.kind = "ChatsListed") =>
        /\ {c_res.chats[i].id : i \in 1..Len(c_res.chats)}
              = ChatsOf(c_req.user_id)
        /\ Len(c_res.chats) = Cardinality(ChatsOf(c_req.user_id))
        /\ \A i \in 1..Len(c_res.chats) :
              c_res.chats[i].participant_ids
                 = chats[c_res.chats[i].id].participant_ids

=============================================================================
